---- MODULE Spec2Model ----
(***************************************************************************)
(* Model of the voice-chat backend: the regex sentence segmenter of        *)
(* AudioProcessor (audio_processor.py), the streaming TTS manager          *)
(* (audio_utils.py) and the polling API of main.py (sessions, background   *)
(* producers, drain, stop, clear).                                         *)
(*                                                                         *)
(* Text is a sequence of one-character strings.  A waveform is the         *)
(* sequence of the texts that were synthesized into it.                    *)
(*                                                                         *)
(* Handlers of main.py are coroutines without an await and run atomically  *)
(* on the event loop; process_audio_stream suspends only in                *)
(* "await asyncio.sleep(0.01)", right after it appended a chunk, so one    *)
(* ProducerStep is the stretch between two suspensions.                    *)
(*                                                                         *)
(* Spec    : the polling API, two stream_voice_chat requests over two      *)
(*           session ids, with drains, stops and clears in any order.      *)
(* SpecSeg : one AudioProcessor over every stream within the bounds and    *)
(*           over the two documented example streams.                      *)
(* SpecApi : the HTTP handlers of main.py with the answer each request     *)
(*           receives, or the WebSocket message flow of api_v2.py; which   *)
(*           application runs is fixed in the initial state.               *)
(* SpecSolo: one run followed alone: one producer of main.py over streams  *)
(*           chosen for how they are cut and how they end, or one          *)
(*           AudioProcessor, or the messages of one WebSocket connection.  *)
(* SpecRuns: the requests of one session of the polling API, with the      *)
(*           response text each drain returned; SpecLive adds the fairness *)
(*           of the event loop, which resumes every sleeping task.         *)
(* SpecSess: one SessionManager (session_utils.py) under a ticking clock.  *)
(* SpecTts : two StreamingTTSManager objects sharing one temp directory    *)
(*           under the same clock.                                         *)
(* SpecWave: one StreamingTTSManager with a log of its process_chunk and   *)
(*           reset calls.                                                  *)
(* SpecConn: the ConnectionManager of api_v2.py with the WebSocket         *)
(*           connections clients open and close under their client_id.     *)
(***************************************************************************)
EXTENDS Integers, Sequences, FiniteSets, TLC

VARIABLES
    \* ---- AudioProcessor (audio_processor.py) ----
    ap_generator,         \* llm_response_generator: fragments not yet yielded
    ap_pc,                \* "streaming" | "returned": position of process_stream
    ap_is_processing,     \* self.is_processing
    ap_current_response,  \* self.current_response
    ap_sentence_buffer,   \* self.sentence_buffer
    ap_audio_chunks,      \* self.audio_chunks
    ap_all_audio,         \* self.tts_manager.all_audio
    ap_emitted,           \* history: complete sentences the split produced
    ap_handed,            \* history: texts handed to tts_manager.process_chunk
    ap_step,              \* history: what the last loop iteration did
    ap_raised,            \* history: process_stream left through its except branch
    ap_delivered,         \* history: concatenation of all get_chunks results
    \* ---- polling API (main.py) ----
    active_sessions,      \* session id -> AudioSession (with its tts_manager)
    tasks,                \* background task slot -> process_audio_stream activation
    hist,                 \* history per session, since its last begin of a run
    run_hist,             \* history per background task
    polled,               \* history per background task: response_so_far of the
                          \* last drain of its run
    response,             \* the answer the last request handler gave its caller
    app,                  \* the program that runs: "main" | "api_v2" under uvicorn,
                          \* "audio_processor" for an AudioProcessor driven alone
    \* ---- WebSocket API (api_v2.py), one client ----
    ws_pc,                \* "idle" | "speaking": position of the message handler
    ws_history,           \* sessions[client_id]
    ws_out,               \* messages sent to the client for the current message
    ws_text_chunks,       \* text_chunks of the current run
    ws_idx,               \* idx of the chunk loop (0-based)
    ws_run,               \* history: the message being handled and its calls
    \* ---- ConnectionManager (api_v2.py), the sockets of all clients ----
    conn_sockets,         \* socket -> its state, client_id and message counts
    active_connections,   \* manager.active_connections: client_id -> socket
    conn_accepted,        \* history: the sockets in the order they were accepted
    \* ---- SessionManager (session_utils.py) with its StreamingTTSManagers ----
    clock,                \* the current second: time.time() and datetime.now()
    sm_sessions,          \* self.sessions: session id -> session record
    sm_files,             \* the files in temp_dir
    sm_last,              \* history: the last SessionManager call and what it met
    \* ---- StreamingTTSManager objects of one process (audio_utils.py) ----
    tts_managers,         \* manager -> its fields, for the managers constructed
    tts_files,            \* the files save_complete_audio wrote to temp_dir
    tts_last,             \* history: the last reset or export of a manager
    tts_log               \* history: the process_chunk and reset calls of one manager

apVars == <<ap_generator, ap_pc, ap_is_processing, ap_current_response,
            ap_sentence_buffer, ap_audio_chunks, ap_all_audio, ap_emitted,
            ap_handed, ap_step, ap_raised, ap_delivered>>

mainVars == <<active_sessions, tasks, hist, run_hist, polled>>

apiVars == <<response, app>>

wsVars == <<ws_pc, ws_history, ws_out, ws_text_chunks, ws_idx, ws_run>>

connVars == <<conn_sockets, active_connections, conn_accepted>>

smVars == <<clock, sm_sessions, sm_files, sm_last>>

ttsVars == <<tts_managers, tts_files, tts_last, tts_log>>

vars == <<ap_generator, ap_pc, ap_is_processing, ap_current_response,
          ap_sentence_buffer, ap_audio_chunks, ap_all_audio, ap_emitted,
          ap_handed, ap_step, ap_raised, ap_delivered,
          active_sessions, tasks, hist, run_hist, polled, response, app,
          ws_pc, ws_history, ws_out, ws_text_chunks, ws_idx, ws_run,
          conn_sockets, active_connections, conn_accepted,
          clock, sm_sessions, sm_files, sm_last,
          tts_managers, tts_files, tts_last, tts_log>>

----------------------------------------------------------------------------
\* Bounds of the model

\* longest text (in characters) an enumerated LLM stream carries
MaxLen == 4

\* most fragments an enumerated LLM stream yields
MaxFrags == 3

\* most fragments of an LLM stream of the polling API
MaxStreamLen == 3

\* the last second the clock reaches
MaxClock == 3

\* expiry_seconds the SessionManager is constructed with, in seconds
expiry_seconds == 2

\* most messages a SessionManager session collects, most chunks a manager speaks
MaxMessages == 1

\* most process_chunk and reset calls of the manager whose calls are logged
MaxCalls == 4

\* longest reply (in characters) the LLM gives a WebSocket client
MaxReplyLen == 3

\* the WebSocket connections clients open
MaxSockets == 2

\* most messages a client sends over one WebSocket connection
MaxSent == 1

\* characters of the enumerated streams: a letter, a terminal, a whitespace
Alphabet == {"a", ".", " "}

----------------------------------------------------------------------------
\* Text helpers (Python str / re semantics)

\* the characters [.!?] of the split pattern
Terminals == {".", "!", "?"}

\* the characters \s and str.strip() treat as whitespace
Whitespace == {" ", "\n", "\t"}

RECURSIVE LStrip(_)
LStrip(s) ==
    IF s # <<>> /\ Head(s) \in Whitespace THEN LStrip(Tail(s)) ELSE s

RECURSIVE RStrip(_)
RStrip(s) ==
    IF s # <<>> /\ s[Len(s)] \in Whitespace
    THEN RStrip(SubSeq(s, 1, Len(s) - 1))
    ELSE s

\* str.strip()
Strip(s) == RStrip(LStrip(s))

\* first index >= i of s that holds no whitespace (Len(s)+1 when none): \s+ is greedy
RECURSIVE SkipSpace(_, _)
SkipSpace(s, i) ==
    IF i <= Len(s) /\ s[i] \in Whitespace THEN SkipSpace(s, i + 1) ELSE i

\* the least element of a non-empty set of integers
Least(S) == CHOOSE j \in S : \A k \in S : j <= k

\* the indices >= i of s where the pattern (?<=[.!?])\s+ can start to match:
\* a whitespace character directly preceded by a terminal
MatchStarts(s, i) ==
    {j \in i..Len(s) : s[j] \in Whitespace /\ j > 1 /\ s[j - 1] \in Terminals}

\* a split that also consumes the terminal (pattern [.!?]\s+ without the lookbehind)
RECURSIVE SplitFromEatingTerminal(_, _, _, _)
SplitFromEatingTerminal(s, i, cur, acc) ==
    IF MatchStarts(s, i) = {} THEN Append(acc, cur \o SubSeq(s, i, Len(s)))
    ELSE LET j == Least(MatchStarts(s, i))
             piece == cur \o SubSeq(s, i, j - 1)
         IN SplitFromEatingTerminal(s, SkipSpace(s, j), <<>>,
                                    Append(acc, SubSeq(piece, 1, Len(piece) - 1)))

\* re.split(r"(?<=[.!?])\s+", s) scanning from index i: cur is the piece being
\* collected, acc the pieces already closed.  A match is a maximal whitespace
\* run directly preceded by a terminal; the run itself is in no piece.
RECURSIVE SplitFrom(_, _, _, _)
SplitFrom(s, i, cur, acc) ==
    IF MatchStarts(s, i) = {} THEN Append(acc, cur \o SubSeq(s, i, Len(s)))
    ELSE LET j == Least(MatchStarts(s, i))
         IN SplitFrom(s, SkipSpace(s, j), <<>>, Append(acc, cur \o SubSeq(s, i, j - 1)))

\* the split with the terminal consumed by the separator
ReSplitEatingTerminal(s) == SplitFromEatingTerminal(s, 1, <<>>, <<>>)

\* re.split(r"(?<=[.!?])\s+", s)
ReSplit(s) == SplitFrom(s, 1, <<>>, <<>>)

\* concatenation of a sequence of texts
RECURSIVE Concat(_)
Concat(ss) == IF ss = <<>> THEN <<>> ELSE Head(ss) \o Concat(Tail(ss))

\* the text without its whitespace characters
NonSpace(s) == SelectSeq(s, LAMBDA c : c \notin Whitespace)

----------------------------------------------------------------------------
\* Inputs

\* every text over the alphabet of at most n characters
TextsUpTo(n) == UNION {[1..k -> Alphabet] : k \in 0..n}

\* every stream of at most k fragments carrying at most budget characters
RECURSIVE StreamsOf(_, _)
StreamsOf(k, budget) ==
    IF k = 0 THEN {<<>>}
    ELSE {<<>>} \cup
         UNION {{<<f>> \o rest : rest \in StreamsOf(k - 1, budget - Len(f))}
                : f \in TextsUpTo(budget)}

HelloAll == <<"H","e","l","l","o"," ","t","h","e","r","e","."," ","H","o","w"," ","a","r","e"," ","y","o","u","?"," ","I","'","m"," ","f","i","n","e","!">>
HelloThe == <<"H","e","l","l","o"," ","t","h","e">>
ReHow == <<"r","e","."," ","H","o","w"," ","a","r","e"," ","y","o","u","?">>
UnitHelloThere == <<"H","e","l","l","o"," ","t","h","e","r","e",".">>
UnitHowAreYou == <<"H","o","w"," ","a","r","e"," ","y","o","u","?">>
UnitImFine == <<"I","'","m"," ","f","i","n","e","!">>

\* the two streams of the documented examples
StreamOneDelta == <<HelloAll>>
StreamTwoDeltas == <<HelloThe, ReHow>>

\* the streams an AudioProcessor is constructed with
ApStreams == StreamsOf(MaxFrags, MaxLen) \cup {StreamOneDelta, StreamTwoDeltas}

----------------------------------------------------------------------------
\* StreamingTTSManager (audio_utils.py)

\* the waveform the backend generates for a text: one token per synthesized text
Audio(text) == <<text>>

\* a test that also turns away a text without a terminal at its end
IsBlankOrOpen(text) ==
    Strip(text) = <<>> \/ Strip(text)[Len(Strip(text))] \notin Terminals

\* process_chunk returns None without calling the backend for blank text
IsBlank(text) == Strip(text) = <<>>

\* StreamingTTSManager.process_text: the sentences it hands to process_chunk
process_text(text) == SelectSeq(ReSplit(text), LAMBDA sentence : ~IsBlank(sentence))

----------------------------------------------------------------------------
\* AudioProcessor (audio_processor.py)

\* every piece taken as complete (sentences[:] for sentences[:-1])
CompleteSentencesAll(sentences) ==
    IF Len(sentences) > 1 THEN sentences ELSE <<>>

\* the complete pieces taken from right to left
CompleteSentencesReversed(sentences) ==
    IF Len(sentences) > 1
    THEN [k \in 1..(Len(sentences) - 1) |-> sentences[Len(sentences) - k]]
    ELSE <<>>

\* complete_sentences = sentences[:-1] when the split found a boundary
CompleteSentences(sentences) ==
    IF Len(sentences) > 1 THEN SubSeq(sentences, 1, Len(sentences) - 1) ELSE <<>>

\* the buffer emptied after a split instead of keeping the last piece
KeptBufferCleared(buf, sentences) ==
    IF Len(sentences) > 1 THEN <<>> ELSE buf

\* self.sentence_buffer = sentences[-1] when the split found a boundary
KeptBuffer(buf, sentences) ==
    IF Len(sentences) > 1 THEN sentences[Len(sentences)] ELSE buf

\* the sentences of one loop iteration without the last of them
SpokenButLast(complete) ==
    IF complete = <<>> THEN complete ELSE SubSeq(complete, 1, Len(complete) - 1)

\* the sentences of one loop iteration that reach _process_sentence
Spoken(complete) == SelectSeq(complete, LAMBDA x : ~IsBlank(x))

\* the sentences handed to the backend when the one that raised is tried again
TriedWithRetry(todo, failAt) ==
    IF failAt = 0 THEN todo ELSE Append(SubSeq(todo, 1, failAt), todo[failAt])

\* the sentences handed to the backend: the exception of the failAt-th call
\* leaves the loop and process_stream
Tried(todo, failAt) == IF failAt = 0 THEN todo ELSE SubSeq(todo, 1, failAt)

\* _process_sentence over the sentences todo, the failAt-th backend call raising
\* (0: none raises).  Every sentence before it yields one chunk.  pcAfter is
\* where process_stream stands when no call raised.
ApSynthesize(todo, failAt, pcAfter) ==
    LET done == IF failAt = 0 THEN todo ELSE SubSeq(todo, 1, failAt - 1)
        tried == Tried(todo, failAt)
    IN /\ ap_audio_chunks' = ap_audio_chunks \o done
       /\ ap_all_audio' = ap_all_audio \o Concat([i \in 1..Len(done) |-> Audio(done[i])])
       /\ ap_handed' = ap_handed \o tried
       /\ ap_raised' = (failAt # 0)
       /\ ap_is_processing' = IF failAt # 0 THEN FALSE ELSE ap_is_processing
       /\ ap_pc' = IF failAt # 0 THEN "returned" ELSE pcAfter

\* one iteration of "for chunk in self.llm_response_generator"
ApFeed ==
    /\ ap_pc = "streaming"
    /\ ap_generator # <<>>
    /\ LET chunk == Head(ap_generator) IN
       /\ ap_generator' = Tail(ap_generator)
       /\ IF chunk # <<>> /\ ap_is_processing
          THEN LET buf == ap_sentence_buffer \o chunk
                   sentences == ReSplit(buf)
                   complete == CompleteSentences(sentences)
               IN /\ ap_current_response' = ap_current_response \o chunk
                  /\ ap_sentence_buffer' = KeptBuffer(buf, sentences)
                  /\ ap_emitted' = ap_emitted \o complete
                  /\ ap_step' = [n |-> ap_step.n + 1, units |-> Spoken(complete)]
                  /\ \E failAt \in 0..Len(Spoken(complete)) :
                        ApSynthesize(Spoken(complete), failAt, ap_pc)
                  /\ UNCHANGED ap_delivered
          ELSE /\ ap_step' = [n |-> ap_step.n + 1, units |-> <<>>]
               /\ UNCHANGED <<ap_pc, ap_is_processing, ap_current_response,
                              ap_sentence_buffer, ap_audio_chunks, ap_all_audio,
                              ap_emitted, ap_handed, ap_raised, ap_delivered>>

\* the generator is exhausted: "Process any remaining text", then return
ApFinish ==
    /\ ap_pc = "streaming"
    /\ ap_generator = <<>>
    /\ IF ap_sentence_buffer # <<>> /\ ap_is_processing /\ ~IsBlank(ap_sentence_buffer)
       THEN \E ok \in BOOLEAN :
               ApSynthesize(<<ap_sentence_buffer>>, IF ok THEN 0 ELSE 1, "returned")
       ELSE /\ ap_pc' = "returned"
            /\ UNCHANGED <<ap_is_processing, ap_audio_chunks, ap_all_audio,
                           ap_handed, ap_raised>>
    /\ UNCHANGED <<ap_generator, ap_current_response, ap_sentence_buffer,
                   ap_emitted, ap_step, ap_delivered>>

\* AudioProcessor.stop
ApStop ==
    /\ ap_is_processing' = FALSE
    /\ ap_is_processing
    /\ UNCHANGED <<ap_generator, ap_pc, ap_current_response, ap_sentence_buffer,
                   ap_audio_chunks, ap_all_audio, ap_emitted, ap_handed, ap_step,
                   ap_raised, ap_delivered>>

\* AudioProcessor.get_chunks
ApGetChunks ==
    /\ ap_delivered' = ap_delivered \o ap_audio_chunks
    /\ ap_audio_chunks' = <<>>
    /\ UNCHANGED <<ap_generator, ap_pc, ap_is_processing, ap_current_response,
                   ap_sentence_buffer, ap_all_audio, ap_emitted, ap_handed,
                   ap_step, ap_raised>>

----------------------------------------------------------------------------
\* LLM (llm_utils.py)

LlmNoKeyText == <<"E","r","r","o","r",":"," ","C","o","u","l","d"," ","n","o","t"," ","c","o","n","n","e","c","t"," ","t","o"," ","L","L","M","."," ","P","l","e","a","s","e"," ","c","h","e","c","k"," ","y","o","u","r"," ","A","P","I"," ","k","e","y",".">>
LlmErrorPrefix == <<"E","r","r","o","r"," ","g","e","t","t","i","n","g"," ","L","L","M"," ","r","e","s","p","o","n","s","e",":"," ">>
LlmStreamErrorPrefix == <<"E","r","r","o","r"," ","s","t","r","e","a","m","i","n","g"," ","L","L","M"," ","r","e","s","p","o","n","s","e",":"," ">>

\* str(e) of the exception the upstream call raised
ErrText == <<"b","o","o","m">>

\* What the upstream does for one call: "text" (it answers with text),
\* "no_key" (setup_gemini returns False), "raised" (a call of the client
\* library raises).
LlmOutcomes(texts) ==
    {[kind |-> "text", text |-> t] : t \in texts}
        \cup {[kind |-> "no_key", text |-> <<>>], [kind |-> "raised", text |-> <<>>]}

\* a failure answered with an empty response
get_llm_response_blank(outcome) ==
    IF outcome.kind = "text" THEN outcome.text ELSE <<>>

\* get_llm_response: the text it returns
get_llm_response(outcome) ==
    CASE outcome.kind = "text" -> outcome.text
      [] outcome.kind = "no_key" -> LlmNoKeyText
      [] outcome.kind = "raised" -> LlmErrorPrefix \o ErrText

\* the fragments "if chunk.text: yield chunk.text" lets through
Yielded(upstream) == SelectSeq(upstream, LAMBDA t : t # <<>>)

\* stream_llm_response: the fragments the generator yields when the upstream
\* holds the chunk texts upstream and raises on the failAt-th (0: never);
\* hasKey: setup_gemini succeeded
stream_llm_response(upstream, failAt, hasKey) ==
    IF ~hasKey THEN <<LlmNoKeyText>>
    ELSE IF failAt = 0 THEN Yielded(upstream)
         ELSE Append(Yielded(SubSeq(upstream, 1, failAt - 1)),
                     LlmStreamErrorPrefix \o ErrText)

----------------------------------------------------------------------------
\* WebSocket API (api_v2.py)

\* re.split(r"([.!?](?:\s|$))", s) scanning from index i: the separator is a
\* terminal with the one whitespace character after it, or a terminal at the
\* end of the text; the capture group puts every separator into the result.
SeparatorStarts(s, i) ==
    {j \in i..Len(s) : s[j] \in Terminals /\ (j = Len(s) \/ s[j + 1] \in Whitespace)}

RECURSIVE SplitCaptureFrom(_, _, _, _)
SplitCaptureFrom(s, i, cur, acc) ==
    IF SeparatorStarts(s, i) = {} THEN Append(acc, cur \o SubSeq(s, i, Len(s)))
    ELSE LET j == Least(SeparatorStarts(s, i))
             sep == IF j = Len(s) THEN <<s[j]>> ELSE <<s[j], s[j + 1]>>
         IN SplitCaptureFrom(s, j + Len(sep), <<>>,
                             acc \o <<cur \o SubSeq(s, i, j - 1), sep>>)

ReSplitCapture(s) == SplitCaptureFrom(s, 1, <<>>, <<>>)

\* "Re-join the punctuation with the preceding text": the while loop from its
\* 0-based position i, then "Add any remaining chunk"
RECURSIVE RejoinFrom(_, _, _)
RejoinFrom(chunks, i, acc) ==
    IF i < Len(chunks) - 1
    THEN IF Strip(chunks[i + 2]) \in {<<".">>, <<"!">>, <<"?">>}
         THEN RejoinFrom(chunks, i + 2, Append(acc, chunks[i + 1] \o chunks[i + 2]))
         ELSE RejoinFrom(chunks, i + 1, Append(acc, chunks[i + 1]))
    ELSE IF i < Len(chunks) /\ Strip(chunks[i + 1]) # <<>>
         THEN Append(acc, chunks[i + 1])
         ELSE acc

\* text_chunks of a response, after "Filter out empty chunks"
TextChunks(ai_response) ==
    SelectSeq(RejoinFrom(ReSplitCapture(ai_response), 0, <<>>),
              LAMBDA c : Strip(c) # <<>>)

\* what transcribe_audio returns: None, or result["text"] (possibly empty)
TranscribeResults ==
    {[none |-> TRUE, text |-> <<>>], [none |-> FALSE, text |-> <<>>],
     [none |-> FALSE, text |-> <<"h", "i">>]}

\* a test for None alone
NoTranscriptionNoneOnly(t) == t.none

\* "not transcription"
NoTranscription(t) == t.none \/ t.text = <<>>

\* the replies the LLM gives a WebSocket client
WsReplies == TextsUpTo(MaxReplyLen)

\* the messages of one connection the model follows
WsMessageIds == {1, 2}

\* a message sent to the client
WsMsg(type, text, chunk_index, end) ==
    [type |-> type, text |-> text, chunk_index |-> chunk_index, end |-> end]

StatusProcessing == WsMsg("status", <<>>, -1, FALSE)

\* a send that overtakes the messages sent before it
send_message_first(out, message) == <<message>> \o out

\* ConnectionManager.send_message: the connection delivers in sending order
send_message(out, message) == Append(out, message)

WsNoRun ==
    [n |-> 0, kind |-> "none", aborted |-> FALSE, llm |-> "none",
     llm_calls |-> 0, tts_calls |-> 0, history_before |-> 0, heard |-> <<>>]

\* "end": idx == len(text_chunks) - 1
EndFlag(idx, text_chunks) == idx = Len(text_chunks) - 1

\* the stretch of a run from the LLM call to the start of the chunk loop
WsRespond(kind, user_text, outcome, first_msgs) ==
    LET ai_response == get_llm_response(outcome)
        chunks == TextChunks(ai_response)
    IN /\ ws_history' = ws_history \o <<[role |-> "user", content |-> user_text],
                                         [role |-> "assistant", content |-> ai_response]>>
       /\ ws_out' = send_message(first_msgs, WsMsg("text_response", ai_response, -1, FALSE))
       /\ ws_text_chunks' = chunks
       /\ ws_idx' = 0
       /\ ws_pc' = IF chunks = <<>> THEN "idle" ELSE "speaking"
       /\ ws_run' = [n |-> ws_run.n + 1, kind |-> kind, aborted |-> FALSE,
                     llm |-> outcome.kind, llm_calls |-> 1, tts_calls |-> 0,
                     history_before |-> Len(ws_history), heard |-> user_text]

\* process_audio_message up to its chunk loop
WsProcessAudio(t, outcome) ==
    /\ ws_pc = "idle"
    /\ ws_run.n + 1 \in WsMessageIds
    /\ IF NoTranscription(t)
       THEN /\ ws_out' = <<StatusProcessing,
                           WsMsg("error", <<"Failed to transcribe audio">>, -1, FALSE)>>
            /\ ws_run' = [n |-> ws_run.n + 1, kind |-> "audio", aborted |-> TRUE,
                          llm |-> "none", llm_calls |-> 0, tts_calls |-> 0,
                          history_before |-> Len(ws_history), heard |-> <<>>]
            /\ ws_text_chunks' = <<>>
            /\ ws_idx' = 0
            /\ UNCHANGED <<ws_pc, ws_history>>
       ELSE WsRespond("audio", t.text, outcome,
                      <<StatusProcessing, WsMsg("transcription", t.text, -1, FALSE)>>)

\* process_text_message, type "text_input", up to its chunk loop
WsProcessText(text, outcome) ==
    /\ ws_pc = "idle"
    /\ ws_run.n + 1 \in WsMessageIds
    /\ WsRespond("text", text, outcome, <<StatusProcessing>>)

\* a loop that a failing chunk ends
LoopAfterBreakOnFailure(idx, text_chunks, ok) ==
    IF ~ok \/ idx + 1 = Len(text_chunks) THEN "idle" ELSE "speaking"

\* where the handler stands after the iteration idx: both failure branches
\* only send a message, the for loop goes on to the next chunk
LoopAfter(idx, text_chunks, ok) ==
    IF idx + 1 = Len(text_chunks) THEN "idle" ELSE "speaking"

\* one iteration of "for idx, chunk in enumerate(text_chunks)"; ok: text_to_speech
\* wrote the file (otherwise it raised or produced no file)
WsSpeakChunk(ok) ==
    /\ ws_pc = "speaking"
    /\ LET chunk == ws_text_chunks[ws_idx + 1] IN
       /\ ws_out' = send_message(ws_out,
              IF ok THEN WsMsg("audio_response_chunk", chunk, ws_idx,
                               EndFlag(ws_idx, ws_text_chunks))
                    ELSE WsMsg("error", <<"TTS">>, ws_idx, FALSE))
       /\ ws_idx' = ws_idx + 1
       /\ ws_pc' = LoopAfter(ws_idx, ws_text_chunks, ok)
       /\ ws_run' = [ws_run EXCEPT !.tts_calls = @ + 1]
       /\ UNCHANGED <<ws_history, ws_text_chunks>>

\* process_text_message, type "clear_session"
WsClearSession ==
    /\ ws_pc = "idle"
    /\ ws_history' = <<>>
    /\ ws_out' = <<WsMsg("status", <<"session_cleared">>, -1, FALSE)>>
    /\ ws_run' = [WsNoRun EXCEPT !.n = ws_run.n, !.kind = "clear"]
    /\ UNCHANGED <<ws_pc, ws_text_chunks, ws_idx>>

\* the text messages process_text_message turns away: no "type" key, type
\* "text_input" without a "text" key, a type it does not know
WsMalformedKinds == {"no_type", "no_text", "unknown_type"}

\* the "message" of the error sent for a message that is turned away
MalformedText(kind) ==
    CASE kind = "no_type" -> "Missing message type"
      [] kind = "no_text" -> "Missing text content"
      [] kind = "unknown_type" -> "Unknown message type"

\* a handler that returns without telling the client
MalformedOutSilent(kind) == <<>>

\* what process_text_message sends for a message it turns away
MalformedOut(kind) == <<WsMsg("error", <<MalformedText(kind)>>, -1, FALSE)>>

\* process_text_message on a message it turns away: it sends the error and
\* returns before it touches sessions[client_id]
WsMalformed(kind) ==
    /\ ws_pc = "idle"
    /\ ws_out' = MalformedOut(kind)
    /\ ws_run' = [WsNoRun EXCEPT !.n = ws_run.n, !.kind = kind,
                                 !.history_before = Len(ws_history)]
    /\ UNCHANGED <<ws_pc, ws_history, ws_text_chunks, ws_idx>>

----------------------------------------------------------------------------
\* ConnectionManager (api_v2.py) and the sockets of websocket_endpoint

\* the WebSocket connections of a behaviour, in the order of their numbers
Sockets == 1..MaxSockets

\* the client_id of the path /ws/{client_id}: clients choose it
ClientIds == {"c1", "c2"}

\* a connection that was not opened yet
NewSocket == [state |-> "new", client_id |-> "none", sent |-> 0, received |-> 0]

\* the socket of client_id c that was accepted last, 0 when there is none
LatestSocket(c) ==
    LET at == {i \in DOMAIN conn_accepted : conn_sockets[conn_accepted[i]].client_id = c}
    IN IF at = {} THEN 0
       ELSE conn_accepted[CHOOSE i \in at : \A j \in at : j <= i]

\* ConnectionManager.disconnect: "del self.active_connections[client_id]"
Disconnected(connections, c) ==
    [x \in DOMAIN connections \ {c} |-> connections[x]]

\* websocket_endpoint of socket w up to its first receive: manager.connect
ConnConnect(w, c) ==
    /\ conn_sockets[w].state = "new"
    /\ conn_sockets' = [conn_sockets EXCEPT ![w] = [@ EXCEPT !.state = "open",
                                                            !.client_id = c]]
    /\ active_connections' = (c :> w) @@ active_connections
    /\ conn_accepted' = Append(conn_accepted, w)

\* a message arrives on socket w and its handler answers it with
\* manager.send_message(client_id, ...)
ConnSendMessage(w) ==
    /\ conn_sockets[w].state = "open"
    /\ conn_sockets[w].sent < MaxSent
    /\ LET c == conn_sockets[w].client_id
           counted == [conn_sockets EXCEPT ![w].sent = @ + 1]
       IN conn_sockets' = IF c \in DOMAIN active_connections
                          THEN [counted EXCEPT ![active_connections[c]].received = @ + 1]
                          ELSE counted
    /\ UNCHANGED <<active_connections, conn_accepted>>

\* the receive of socket w raises WebSocketDisconnect: manager.disconnect
ConnDisconnect(w) ==
    /\ conn_sockets[w].state = "open"
    /\ conn_sockets' = [conn_sockets EXCEPT ![w].state = "closed"]
    /\ active_connections' = Disconnected(active_connections, conn_sockets[w].client_id)
    /\ UNCHANGED conn_accepted

----------------------------------------------------------------------------
\* Polling API (main.py)

SessionIds == {"s1", "s2"}

\* the stream_voice_chat requests of a behaviour: each takes one task slot
TaskIds == {1, 2}

\* min_chunk_size and max_buffer_size of process_audio_stream
min_chunk_size == 10
max_buffer_size == 50

\* break_chars, in the order the scan tries them
break_chars == <<<<".">>, <<",">>, <<"!">>, <<"?">>, <<":">>, <<";">>,
                 <<" ", "-", " ">>, <<"\n">>>>

\* fragments the LLM stream yields in the model
FragHello == <<"H","e","l","l","o"," ","t","h","e","r","e",".">>
FragHow == <<" ","H","o","w"," ","a","r","e"," ","y","o","u","?">>
FragFine == <<" ","I","'","m"," ","f","i","n","e">>
FragOk == <<"o","k">>
FragBye == <<" ","B","y","e","!">>

\* the fragments of the long stream, as far as the bound lets it run
LongStream == <<FragHello, FragHow, FragFine, FragBye, FragHow, FragBye>>

\* the LLM streams a run may receive (stream_llm_response yields no empty fragment)
LLMStreams == {SubSeq(LongStream, 1, MaxStreamLen), <<FragOk>>}

\* what Whisper returned for the uploaded audio, when it returned text
Transcription == <<"h", "i">>

\* str.rfind(pat) on s: the highest 0-based start index of an occurrence of
\* pat in s, -1 when there is none
RFind(s, pat) ==
    LET starts == {i \in 0..(Len(s) - Len(pat)) : SubSeq(s, i + 1, i + Len(pat)) = pat}
    IN IF starts = {} THEN -1 ELSE CHOOSE i \in starts : \A j \in starts : j <= i

\* the loop over break_chars from its k-th entry: the first entry whose last
\* occurrence lies beyond min_chunk_size // 2 decides process_index
RECURSIVE BreakIndexFrom(_, _)
BreakIndexFrom(buf, k) ==
    IF k > Len(break_chars) THEN Len(buf)
    ELSE IF RFind(buf, break_chars[k]) > min_chunk_size \div 2
         THEN RFind(buf, break_chars[k]) + 1
         ELSE BreakIndexFrom(buf, k + 1)

\* process_index for a buffer that reached the threshold
ProcessIndex(buf) == BreakIndexFrom(buf, 1)

\* The "for chunk in response_generator" loop from where the task resumes up to
\* its next suspension: it runs without yielding until a text is handed to
\* process_chunk (speak holds it) or the generator is exhausted.
RECURSIVE RunLoop(_, _, _, _)
RunLoop(gen, buf, resp, processing) ==
    IF gen = <<>>
    THEN [gen |-> gen, buf |-> buf, resp |-> resp, speak |-> <<>>, exhausted |-> TRUE]
    ELSE IF Head(gen) = <<>> \/ ~processing
         THEN RunLoop(Tail(gen), buf, resp, processing)
         ELSE LET b == buf \o Head(gen)
                  r == resp \o Head(gen)
                  pidx == ProcessIndex(b)
                  text == Strip(SubSeq(b, 1, pidx))
              IN IF (Len(b) >= min_chunk_size \/ Len(b) >= max_buffer_size) /\ pidx > 0
                 THEN IF text # <<>>
                      THEN [gen |-> Tail(gen), buf |-> SubSeq(b, pidx + 1, Len(b)),
                            resp |-> r, speak |-> <<text>>, exhausted |-> FALSE]
                      ELSE RunLoop(Tail(gen), SubSeq(b, pidx + 1, Len(b)), r, processing)
                 ELSE RunLoop(Tail(gen), b, r, processing)

\* AudioSession.__init__ (with StreamingTTSManager.__init__)
NewSession ==
    [messages |-> <<>>, current_response |-> <<>>, audio_chunks |-> <<>>,
     is_processing |-> FALSE, all_audio |-> <<>>]

NoTask ==
    [status |-> "none", sid |-> "s1", gen |-> <<>>, text_buffer |-> <<>>, llm |-> "text"]

\* whether a text starts with the given prefix
StartsWith(text, prefix) ==
    Len(text) >= Len(prefix) /\ SubSeq(text, 1, Len(prefix)) = prefix

\* whether a text ends with the given suffix
EndsWith(text, suffix) ==
    Len(text) >= Len(suffix)
        /\ SubSeq(text, Len(text) - Len(suffix) + 1, Len(text)) = suffix

\* how the upstream behaved for a stream: its last fragment tells a failure
LlmKindOf(stream) ==
    IF stream # <<>> /\ stream[Len(stream)] = LlmNoKeyText THEN "no_key"
    ELSE IF stream # <<>> /\ StartsWith(stream[Len(stream)], LlmStreamErrorPrefix)
         THEN "raised"
         ELSE "text"

NoRunHist == [units |-> 0, cancelled |-> FALSE, after_cancel |-> 0]

NoHist == [synthesized |-> <<>>, delivered |-> <<>>, polls |-> 0, repeat_chunks |-> <<>>]

\* the chunk put at the head of the queue
EnqueueFront(queue, chunk) == <<chunk>> \o queue

\* session.audio_chunks.append(chunk_bytes)
Enqueue(queue, chunk) == Append(queue, chunk)

\* a copy that misses the newest chunk
DrainedChunksButLast(queue) ==
    IF queue = <<>> THEN queue ELSE SubSeq(queue, 1, Len(queue) - 1)

\* chunks = session.audio_chunks.copy()
DrainedChunks(queue) == queue

\* the drain that returns the chunks and leaves them queued
QueueAfterDrainKept(queue) == queue

\* "if chunks: session.audio_chunks = []"
QueueAfterDrain(queue) == IF queue # <<>> THEN <<>> ELSE queue

\* the background tasks of session s that have not ended
ActiveTasks(s) == {p \in TaskIds : tasks[p].status = "active" /\ tasks[p].sid = s}

\* a begin of a run that keeps the chunks of the earlier run queued
BeginRunKeepingQueue(old) ==
    [old EXCEPT !.is_processing = TRUE, !.current_response = <<>>]

\* "session.is_processing = True", "Clear previous audio chunks"
BeginRun(old) ==
    [old EXCEPT !.is_processing = TRUE, !.audio_chunks = <<>>,
                !.current_response = <<>>]

\* POST /api/stream_voice_chat
StreamVoiceChat(s, transcribed, stream) ==
    LET old == IF s \in DOMAIN active_sessions THEN active_sessions[s] ELSE NewSession
        begun == BeginRun(old)
    IN \E p \in TaskIds :
       /\ tasks[p].status = "none"
       /\ \A q \in TaskIds : q < p => tasks[q].status # "none"
       /\ hist' = [hist EXCEPT ![s] = NoHist]
       /\ IF ~transcribed
          THEN \* HTTPException(400) raised inside the try, re-raised as 500:
               \* no background task is added
               /\ active_sessions' = (s :> begun) @@ active_sessions
               /\ tasks' = [tasks EXCEPT ![p] = [NoTask EXCEPT !.status = "rejected",
                                                               !.sid = s]]
               /\ UNCHANGED run_hist
          ELSE /\ active_sessions' =
                    (s :> [begun EXCEPT
                             !.messages = Append(@, [role |-> "user", content |-> Transcription,
                                                     audio_path |-> "upload"]),
                             !.all_audio = <<>>]) @@ active_sessions
               /\ tasks' = [tasks EXCEPT ![p] =
                              [status |-> "active", sid |-> s, gen |-> stream,
                               text_buffer |-> <<>>, llm |-> LlmKindOf(stream)]]
               /\ UNCHANGED run_hist

\* process_audio_stream of task p, from where it is suspended to its next
\* "await asyncio.sleep" or to its end; ok: the backend call of this stretch succeeds
ProducerStep(p, ok) ==
    /\ tasks[p].status = "active"
    /\ LET s == tasks[p].sid
           sess == active_sessions[s]
           r == RunLoop(tasks[p].gen, tasks[p].text_buffer, sess.current_response,
                        sess.is_processing)
           flush == r.exhausted /\ r.buf # <<>> /\ sess.is_processing /\ Strip(r.buf) # <<>>
           text == IF r.speak # <<>> THEN r.speak[1] ELSE r.buf
           calls == r.speak # <<>> \/ flush
           chunk == [run |-> p, idx |-> run_hist[p].units + 1, text |-> text]
           spoken == calls /\ ok
           raised == calls /\ ~ok
           audio == IF spoken THEN sess.all_audio \o Audio(text) ELSE sess.all_audio
           queue == IF spoken THEN Enqueue(sess.audio_chunks, chunk) ELSE sess.audio_chunks
           ends == r.exhausted /\ ~raised
       IN /\ active_sessions' = [active_sessions EXCEPT ![s] =
                [sess EXCEPT
                   !.current_response = r.resp,
                   !.all_audio = audio,
                   !.audio_chunks = queue,
                   !.messages = IF ends
                                THEN Append(@, [role |-> "assistant", content |-> r.resp,
                                                audio_path |-> IF audio = <<>> THEN "None"
                                                               ELSE "complete"])
                                ELSE @,
                   !.is_processing = IF ends THEN FALSE ELSE @]]
          /\ tasks' = [tasks EXCEPT ![p] =
                [@ EXCEPT !.gen = r.gen,
                          !.text_buffer = r.buf,
                          !.status = IF raised THEN "failed"
                                     ELSE IF ends THEN "done" ELSE "active"]]
          /\ hist' = [hist EXCEPT ![s] =
                [@ EXCEPT !.synthesized = IF spoken THEN Append(@, chunk) ELSE @,
                          !.polls = IF spoken THEN 0 ELSE @,
                          !.repeat_chunks = IF spoken THEN <<>> ELSE @]]
          /\ run_hist' = [run_hist EXCEPT ![p] =
                [@ EXCEPT !.units = IF calls THEN @ + 1 ELSE @,
                          !.after_cancel = IF spoken /\ run_hist[p].cancelled THEN @ + 1 ELSE @]]

\* a later stream_voice_chat request has begun a run on the session of task p
Superseded(p) ==
    \E q \in TaskIds : q > p /\ tasks[q].status # "none" /\ tasks[q].sid = tasks[p].sid

\* GET /api/get_audio_chunks
GetAudioChunks(s) ==
    IF s \notin DOMAIN active_sessions
    THEN \* HTTPException(404) raised inside the try, re-raised as 500
         UNCHANGED <<active_sessions, tasks, hist, run_hist>>
    ELSE LET sess == active_sessions[s]
             chunks == DrainedChunks(sess.audio_chunks)
         IN /\ active_sessions' = [active_sessions EXCEPT
                                     ![s].audio_chunks = QueueAfterDrain(sess.audio_chunks)]
            /\ hist' = [hist EXCEPT ![s] =
                          [@ EXCEPT !.delivered = @ \o chunks,
                                    !.repeat_chunks = IF hist[s].polls >= 1 THEN chunks ELSE @,
                                    !.polls = IF @ < 2 THEN @ + 1 ELSE @]]
            /\ UNCHANGED <<tasks, run_hist>>

\* a stop that flips the flag
StoppedToggling(sess) == [sess EXCEPT !.is_processing = ~@]

\* "session.is_processing = False" of stop_session
Stopped(sess) == [sess EXCEPT !.is_processing = FALSE]

\* POST /api/stop_session
StopSession(s) ==
    /\ IF s \in DOMAIN active_sessions
       THEN active_sessions' = [active_sessions EXCEPT ![s] = Stopped(@)]
       ELSE UNCHANGED active_sessions
    /\ run_hist' = [p \in TaskIds |->
                      IF p \in ActiveTasks(s) /\ ~run_hist[p].cancelled
                         /\ active_sessions[s].is_processing
                      THEN [run_hist[p] EXCEPT !.cancelled = TRUE]
                      ELSE run_hist[p]]
    /\ UNCHANGED <<tasks, hist>>

\* DELETE /api/clear_session
ClearSession(s) ==
    IF s \notin DOMAIN active_sessions
    THEN \* HTTPException(404) raised inside the try, re-raised as 500
         UNCHANGED <<active_sessions, tasks, hist, run_hist>>
    ELSE /\ active_sessions' = [active_sessions EXCEPT
                                  ![s].is_processing = FALSE,
                                  ![s].messages = <<>>,
                                  ![s].all_audio = <<>>]
         /\ UNCHANGED <<tasks, hist, run_hist>>


\* POST /api/voice_chat: the whole flow in one request.  transcribed, outcome
\* and ttsOk say what Whisper, the LLM and text_to_speech do for it.
VoiceChat(s, transcribed, outcome, ttsOk) ==
    LET old == IF s \in DOMAIN active_sessions THEN active_sessions[s] ELSE NewSession
        ai_response == get_llm_response(outcome)
        heard == [old EXCEPT !.messages =
                    Append(@, [role |-> "user", content |-> Transcription,
                               audio_path |-> "upload"])]
        answered == [heard EXCEPT !.messages =
                       Append(@, [role |-> "assistant", content |-> ai_response,
                                  audio_path |-> "response"])]
    IN \E p \in TaskIds :
       /\ tasks[p].status = "none"
       /\ \A q \in TaskIds : q < p => tasks[q].status # "none"
       /\ tasks' = [tasks EXCEPT ![p] =
                      [NoTask EXCEPT !.sid = s, !.llm = outcome.kind,
                                     !.status = IF ~transcribed THEN "rejected"
                                                ELSE IF ttsOk THEN "answered"
                                                ELSE "unspoken"]]
       /\ active_sessions' =
             (s :> IF ~transcribed THEN old ELSE IF ttsOk THEN answered ELSE heard)
                 @@ active_sessions
       /\ UNCHANGED <<hist, run_hist>>

\* "Prepare messages without audio paths"
MessagesWithoutAudioPath(messages) ==
    [i \in DOMAIN messages |->
        [role |-> messages[i].role, content |-> messages[i].content]]

\* the stored messages had "message_copy = msg" aliased them: the del hits them
StoredAfterHistoryAliased(messages) == MessagesWithoutAudioPath(messages)

\* the stored messages after the loop: "message_copy = msg.copy()" makes the
\* del act on a copy
StoredAfterHistory(messages) == messages

\* GET /api/session_history
SessionHistory(s) ==
    /\ active_sessions' =
          IF s \in DOMAIN active_sessions
          THEN [active_sessions EXCEPT ![s].messages = StoredAfterHistory(@)]
          ELSE active_sessions
    /\ UNCHANGED <<tasks, hist, run_hist>>

\* what a handler answers; known: the session id was a key of active_sessions
\* when the request arrived
Answer(op, s, status, detail, body) ==
    [op |-> op, sid |-> s, known |-> s \in DOMAIN active_sessions,
     status |-> status, detail |-> detail, body |-> body]

NoResponse ==
    [op |-> "none", sid |-> "none", known |-> FALSE, status |-> 0, detail |-> "",
     body |-> <<>>]

\* the status an HTTPException raised inside "try" reaches the caller with,
\* were it not caught by the handler's own "except Exception"
StatusRaised(status) == status

\* "except Exception as e: raise HTTPException(status_code=500, ...)" catches
\* the HTTPException the handler raised itself
StatusReceived(status) == 500

StreamVoiceChatResponse(s, transcribed) ==
    IF transcribed
    THEN Answer("stream_voice_chat", s, 200, "processing", <<>>)
    ELSE Answer("stream_voice_chat", s, StatusReceived(400),
                "Error in streaming voice chat", <<>>)

VoiceChatResponse(s, transcribed, ttsOk) ==
    IF transcribed /\ ttsOk
    THEN Answer("voice_chat", s, 200, "audio/wav", <<>>)
    ELSE Answer("voice_chat", s, StatusReceived(IF transcribed THEN 500 ELSE 400),
                "Error in voice chat", <<>>)

GetAudioChunksResponse(s) ==
    IF s \notin DOMAIN active_sessions
    THEN Answer("get_audio_chunks", s, StatusReceived(404),
                "Error getting audio chunks", <<>>)
    ELSE Answer("get_audio_chunks", s, 200, "",
                DrainedChunks(active_sessions[s].audio_chunks))

\* a stop_session that raises for an unknown session id as clear_session does
StopSessionResponseNotFound(s) ==
    IF s \notin DOMAIN active_sessions
    THEN Answer("stop_session", s, StatusReceived(404), "Error stopping session", <<>>)
    ELSE Answer("stop_session", s, 200, "stopped", <<>>)

StopSessionResponse(s) == Answer("stop_session", s, 200, "stopped", <<>>)

SessionHistoryResponse(s) ==
    IF s \notin DOMAIN active_sessions
    THEN Answer("session_history", s, StatusReceived(404),
                "Error getting session history", <<>>)
    ELSE Answer("session_history", s, 200, "",
                MessagesWithoutAudioPath(active_sessions[s].messages))

ClearSessionResponse(s) ==
    IF s \notin DOMAIN active_sessions
    THEN Answer("clear_session", s, StatusReceived(404), "Error clearing session", <<>>)
    ELSE Answer("clear_session", s, 200, "cleared", <<>>)

----------------------------------------------------------------------------
\* SessionManager (session_utils.py) and the run identifier of its managers


\* datetime.now().strftime("%Y%m%d%H%M%S"): the time to the second
Timestamp(now) == now

\* StreamingTTSManager.__init__ (all_audio None is the empty waveform here)
NewManager(now) ==
    [session_id |-> Timestamp(now), all_audio |-> <<>>, saved |-> FALSE]

\* a record whose processing flag is set at creation
CreatedSessionProcessing(now) ==
    [created_at |-> now, last_activity |-> now, messages |-> <<>>,
     tts_manager |-> NewManager(now), current_response |-> <<>>,
     audio_chunks |-> <<>>, is_processing |-> TRUE]

\* SessionManager.create_session: the record it stores
CreatedSession(now) ==
    [created_at |-> now, last_activity |-> now, messages |-> <<>>,
     tts_manager |-> NewManager(now), current_response |-> <<>>,
     audio_chunks |-> <<>>, is_processing |-> FALSE]

\* the managers a process constructs
TtsManagers == {"m1", "m2"}

\* the condition of cleanup_expired_sessions with >= for >
ExpiredAtLimit(sessions, s, now) ==
    s \in DOMAIN sessions /\ now - sessions[s].last_activity >= expiry_seconds

\* the condition of cleanup_expired_sessions
Expired(sessions, s, now) ==
    s \in DOMAIN sessions /\ now - sessions[s].last_activity > expiry_seconds

\* cleanup_expired_sessions: the list expired_sessions
ExpiredSessions(sessions, now) == {s \in DOMAIN sessions : Expired(sessions, s, now)}

\* cleanup_expired_sessions with delete_session: the sessions it leaves
SessionsAfterCleanup(sessions, now) ==
    [s \in {x \in DOMAIN sessions : ~Expired(sessions, x, now)} |-> sessions[s]]

\* the session ids a SessionManager is called with: callers choose them, and
\* one may be the beginning of another
SmSessionIds == {"s1", "s10"}

\* the characters of a session id
SessionIdText(s) == IF s = "s1" THEN <<"s", "1">> ELSE <<"s", "1", "0">>

\* the name of the recording a caller stores for a session:
\* f"{client_id}_{timestamp}_input.wav", the timestamp left out
RecordingName(s) == SessionIdText(s) \o <<"_", "i", "n", "p", "u", "t">>

\* pat in text (Python "in" on str): pat occurs somewhere in text
Contains(text, pat) ==
    \E i \in 0..(Len(text) - Len(pat)) : SubSeq(text, i + 1, i + Len(pat)) = pat

\* delete_session: "if session_id in filename: os.remove"
FilesWithout(files, s) == {f \in files : ~Contains(f.name, SessionIdText(s))}

\* the files cleanup_expired_sessions leaves: delete_session runs for every
\* expired session
FilesAfterCleanup(files, sessions, now) ==
    {f \in files : \A s \in DOMAIN sessions :
                      Expired(sessions, s, now) => f \in FilesWithout(files, s)}

\* ret is what the call returned, count what cleanup_expired_sessions returned
SmNoCall ==
    [op |-> "none", sid |-> "none", expired |-> FALSE, hit |-> FALSE,
     ret |-> "none", count |-> 0]

TtsNoCall ==
    [op |-> "none", m |-> "none", before |-> 0, after |-> 0, others |-> {},
     clobbered |-> FALSE]

\* get_session: the sessions after the call
SessionsAfterGet(s) ==
    LET kept == SessionsAfterCleanup(sm_sessions, clock)
    IN IF s \notin DOMAIN kept
       THEN (s :> CreatedSession(clock)) @@ kept
       ELSE [kept EXCEPT ![s].last_activity = clock]

\* what the call of op on session id s returns
Returned(op, s) ==
    CASE op \in {"update_session", "delete_session"} ->
             IF s \in DOMAIN sm_sessions THEN "True" ELSE "False"
      [] op = "export_session" ->
             IF s \in DOMAIN sm_sessions THEN "export_data" ELSE "None"
      [] op = "clear_messages" -> "True"
      [] op \in {"get_session", "create_session"} -> "session"
      [] op = "add_message" -> "message"
      [] op = "get_messages" -> "messages"

\* the history of a call on s that first ran get_session
SmCallMet(op, s) ==
    [op |-> op, sid |-> s, expired |-> Expired(sm_sessions, s, clock),
     hit |-> s \in DOMAIN SessionsAfterCleanup(sm_sessions, clock),
     ret |-> Returned(op, s), count |-> 0]

\* the history of a call on s that looked s up in self.sessions directly
SmCallMetDirect(op, s) ==
    [op |-> op, sid |-> s, expired |-> Expired(sm_sessions, s, clock),
     hit |-> s \in DOMAIN sm_sessions, ret |-> Returned(op, s), count |-> 0]

\* time passes
Tick ==
    /\ clock < MaxClock
    /\ clock' = clock + 1
    /\ UNCHANGED <<sm_sessions, sm_files, sm_last>>

\* SessionManager.create_session: a new record, also over an existing one
SmCreateSession(s) ==
    /\ sm_sessions' = (s :> CreatedSession(clock)) @@ sm_sessions
    /\ sm_last' = [SmNoCall EXCEPT !.op = "create_session", !.sid = s,
                                   !.ret = Returned("create_session", s)]
    /\ UNCHANGED <<clock, sm_files>>

\* SessionManager.cleanup_expired_sessions
SmCleanupExpiredSessions ==
    /\ sm_sessions' = SessionsAfterCleanup(sm_sessions, clock)
    /\ sm_files' = FilesAfterCleanup(sm_files, sm_sessions, clock)
    /\ sm_last' = [SmNoCall EXCEPT !.op = "cleanup_expired_sessions",
                                   !.count = Cardinality(ExpiredSessions(sm_sessions, clock))]
    /\ UNCHANGED clock

\* SessionManager.get_session
SmGetSession(s) ==
    /\ sm_sessions' = SessionsAfterGet(s)
    /\ sm_files' = FilesAfterCleanup(sm_files, sm_sessions, clock)
    /\ sm_last' = SmCallMet("get_session", s)
    /\ UNCHANGED clock

\* SessionManager.update_session(session_id, is_processing=False)
SmUpdateSession(s) ==
    /\ sm_sessions' = IF s \in DOMAIN sm_sessions
                      THEN [sm_sessions EXCEPT ![s].is_processing = FALSE,
                                               ![s].last_activity = clock]
                      ELSE sm_sessions
    /\ sm_last' = SmCallMetDirect("update_session", s)
    /\ UNCHANGED <<clock, sm_files>>

\* SessionManager.delete_session
SmDeleteSession(s) ==
    /\ sm_sessions' = [x \in DOMAIN sm_sessions \ {s} |-> sm_sessions[x]]
    /\ sm_files' = IF s \in DOMAIN sm_sessions THEN FilesWithout(sm_files, s) ELSE sm_files
    /\ sm_last' = [SmNoCall EXCEPT !.op = "delete_session", !.sid = s,
                                   !.ret = Returned("delete_session", s)]
    /\ UNCHANGED clock

\* SessionManager.add_message
SmAddMessage(s, role) ==
    /\ \/ s \notin DOMAIN SessionsAfterGet(s)
       \/ Len(SessionsAfterGet(s)[s].messages) < MaxMessages
    /\ sm_sessions' = [SessionsAfterGet(s) EXCEPT ![s].messages = Append(@, role)]
    /\ sm_files' = FilesAfterCleanup(sm_files, sm_sessions, clock)
    /\ sm_last' = SmCallMet("add_message", s)
    /\ UNCHANGED clock

\* SessionManager.get_messages
SmGetMessages(s) ==
    /\ sm_sessions' = SessionsAfterGet(s)
    /\ sm_files' = FilesAfterCleanup(sm_files, sm_sessions, clock)
    /\ sm_last' = SmCallMet("get_messages", s)
    /\ UNCHANGED clock

\* SessionManager.clear_messages
SmClearMessages(s) ==
    /\ sm_sessions' = [SessionsAfterGet(s) EXCEPT ![s].messages = <<>>]
    /\ sm_files' = FilesAfterCleanup(sm_files, sm_sessions, clock)
    /\ sm_last' = SmCallMet("clear_messages", s)
    /\ UNCHANGED clock

\* SessionManager.export_session (file_path None)
SmExportSession(s) ==
    /\ sm_last' = SmCallMetDirect("export_session", s)
    /\ UNCHANGED <<clock, sm_sessions, sm_files>>

\* a caller stores a recording named with the session id in temp_dir
SmWriteRecording(s) ==
    /\ s \in DOMAIN sm_sessions
    /\ sm_files' = sm_files \cup {[tag |-> s, name |-> RecordingName(s), by |-> s]}
    /\ UNCHANGED <<clock, sm_sessions, sm_last>>

\* StreamingTTSManager(...) is constructed
TtsConstruct(m) ==
    /\ m \notin DOMAIN tts_managers
    /\ tts_managers' = (m :> NewManager(clock)) @@ tts_managers
    /\ UNCHANGED <<tts_files, tts_last>>

\* a process_chunk that stores the samples before it knows the call succeeded
ProcessChunkStoringFirst(mgr, text, ok) ==
    IF IsBlank(text) THEN mgr ELSE [mgr EXCEPT !.all_audio = @ \o Audio(text)]

\* the manager after process_chunk(text); ok: generate_speech (and the
\* stretch) returned, otherwise RuntimeError leaves before all_audio is assigned
ProcessChunk(mgr, text, ok) ==
    IF IsBlank(text) \/ ~ok THEN mgr ELSE [mgr EXCEPT !.all_audio = @ \o Audio(text)]

\* process_chunk(text) on manager m
TtsProcessChunk(m, text, ok) ==
    /\ m \in DOMAIN tts_managers
    /\ tts_managers' = [tts_managers EXCEPT ![m] = ProcessChunk(@, text, ok)]
    /\ UNCHANGED <<tts_files, tts_last>>

\* save_complete_audio()
TtsSaveCompleteAudio(m) ==
    /\ m \in DOMAIN tts_managers
    /\ LET mgr == tts_managers[m]
           name == <<mgr.session_id, "complete">>
       IN IF mgr.all_audio = <<>>
          THEN UNCHANGED <<tts_managers, tts_files, tts_last>>
          ELSE /\ tts_files' = {f \in tts_files : f.name # name}
                                  \cup {[name |-> name, by |-> m]}
               /\ tts_managers' = [tts_managers EXCEPT ![m].saved = TRUE]
               /\ tts_last' = [op |-> "save", m |-> m, before |-> mgr.session_id,
                               after |-> mgr.session_id, others |-> {},
                               clobbered |-> \E f \in tts_files :
                                                /\ f.name = name
                                                /\ (f.by # m \/ ~mgr.saved)]

\* reset()
TtsReset(m) ==
    /\ m \in DOMAIN tts_managers
    /\ tts_managers' = [tts_managers EXCEPT ![m] =
                          [session_id |-> Timestamp(clock), all_audio |-> <<>>,
                           saved |-> FALSE]]
    /\ tts_last' = [op |-> "reset", m |-> m,
                    before |-> tts_managers[m].session_id,
                    after |-> Timestamp(clock),
                    others |-> {tts_managers[x].session_id :
                                   x \in DOMAIN tts_managers \ {m}},
                    clobbered |-> FALSE]
    /\ UNCHANGED tts_files

----------------------------------------------------------------------------
\* Specifications

\* an AudioProcessor that was given an empty stream and is not driven
ApIdle ==
    /\ ap_generator = <<>>
    /\ ap_pc = "streaming"
    /\ ap_is_processing = TRUE
    /\ ap_current_response = <<>>
    /\ ap_sentence_buffer = <<>>
    /\ ap_audio_chunks = <<>>
    /\ ap_all_audio = <<>>
    /\ ap_emitted = <<>>
    /\ ap_handed = <<>>
    /\ ap_step = [n |-> 0, units |-> <<>>]
    /\ ap_raised = FALSE
    /\ ap_delivered = <<>>

\* a connection on which no message has arrived
WsIdle ==
    /\ ws_pc = "idle"
    /\ ws_history = <<>>
    /\ ws_out = <<>>
    /\ ws_text_chunks = <<>>
    /\ ws_idx = 0
    /\ ws_run = WsNoRun

\* a ConnectionManager that is constructed, and no socket opened yet
ConnIdle ==
    /\ conn_sockets = [w \in Sockets |-> NewSocket]
    /\ active_connections = <<>>
    /\ conn_accepted = <<>>

\* a SessionManager that is constructed and not used
SmIdle ==
    /\ clock = 0
    /\ sm_sessions = <<>>
    /\ sm_files = {}
    /\ sm_last = SmNoCall

\* a process that has constructed no manager
TtsIdle ==
    /\ tts_managers = <<>>
    /\ tts_files = {}
    /\ tts_last = TtsNoCall
    /\ tts_log = <<>>

\* main.py at import: no session, no background task
MainIdle ==
    /\ active_sessions = <<>>
    /\ tasks = [p \in TaskIds |-> NoTask]
    /\ hist = [s \in SessionIds |-> NoHist]
    /\ run_hist = [p \in TaskIds |-> NoRunHist]
    /\ polled = [p \in TaskIds |-> <<>>]

Init ==
    /\ active_sessions = <<>>
    /\ tasks = [p \in TaskIds |-> NoTask]
    /\ hist = [s \in SessionIds |-> NoHist]
    /\ run_hist = [p \in TaskIds |-> NoRunHist]
    /\ polled = [p \in TaskIds |-> <<>>]
    /\ response = NoResponse
    /\ app = "main"
    /\ ApIdle
    /\ WsIdle
    /\ ConnIdle
    /\ SmIdle
    /\ TtsIdle

Next ==
    \/ /\ \E s \in SessionIds, transcribed \in BOOLEAN, stream \in LLMStreams :
             StreamVoiceChat(s, transcribed, stream)
       /\ UNCHANGED <<apVars, connVars, apiVars, wsVars, smVars, ttsVars, polled>>
    \/ /\ \E p \in TaskIds, ok \in BOOLEAN : ProducerStep(p, ok)
       /\ UNCHANGED <<apVars, connVars, apiVars, wsVars, smVars, ttsVars, polled>>
    \/ /\ \E s \in SessionIds : GetAudioChunks(s)
       /\ UNCHANGED <<apVars, connVars, apiVars, wsVars, smVars, ttsVars, polled>>
    \/ /\ \E s \in SessionIds : StopSession(s)
       /\ UNCHANGED <<apVars, connVars, apiVars, wsVars, smVars, ttsVars, polled>>
    \/ /\ \E s \in SessionIds : ClearSession(s)
       /\ UNCHANGED <<apVars, connVars, apiVars, wsVars, smVars, ttsVars, polled>>

\* the polling API of main.py: request handlers and background producers
Spec == Init /\ [][Next]_vars

SegInit ==
    /\ ap_generator \in ApStreams
    /\ ap_pc = "streaming"
    /\ ap_is_processing = TRUE
    /\ ap_current_response = <<>>
    /\ ap_sentence_buffer = <<>>
    /\ ap_audio_chunks = <<>>
    /\ ap_all_audio = <<>>
    /\ ap_emitted = <<>>
    /\ ap_handed = <<>>
    /\ ap_step = [n |-> 0, units |-> <<>>]
    /\ ap_raised = FALSE
    /\ ap_delivered = <<>>
    /\ active_sessions = <<>>
    /\ tasks = [p \in TaskIds |-> NoTask]
    /\ hist = [s \in SessionIds |-> NoHist]
    /\ run_hist = [p \in TaskIds |-> NoRunHist]
    /\ polled = [p \in TaskIds |-> <<>>]
    /\ response = NoResponse
    /\ app = "main"
    /\ WsIdle
    /\ ConnIdle
    /\ SmIdle
    /\ TtsIdle

SegNext ==
    \/ ApFeed /\ UNCHANGED <<mainVars, apiVars, wsVars, connVars, smVars, ttsVars>>
    \/ ApFinish /\ UNCHANGED <<mainVars, apiVars, wsVars, connVars, smVars, ttsVars>>
    \/ ApStop /\ UNCHANGED <<mainVars, apiVars, wsVars, connVars, smVars, ttsVars>>
    \/ ApGetChunks /\ UNCHANGED <<mainVars, apiVars, wsVars, connVars, smVars, ttsVars>>

\* the segmenter and its consumer alone
SpecSeg == SegInit /\ [][SegNext]_vars


\* the streams of the requests whose answers are followed: the upstream holds
\* three chunks, one without text, and may lack its key or raise at any chunk
ApiUpstream == <<FragHello, <<>>, FragOk>>

ApiStreams ==
    {stream_llm_response(ApiUpstream, failAt, hasKey) :
        failAt \in 0..Len(ApiUpstream), hasKey \in BOOLEAN}

\* the replies the LLM gives to a voice_chat request
ApiReplies == {FragOk}

\* the task slots the followed requests may take: one upload is followed, with
\* every lookup, stop and clear around it
ApiRequestSlots == {1}

ApiInit ==
    /\ app \in {"main", "api_v2"}
    /\ response = NoResponse
    /\ MainIdle
    /\ WsIdle
    /\ ConnIdle
    /\ ApIdle
    /\ SmIdle
    /\ TtsIdle

ApiNext ==
    \/ /\ app = "main"
       /\ \E p \in ApiRequestSlots : tasks[p].status = "none"
       /\ \E s \in SessionIds, transcribed \in BOOLEAN, stream \in ApiStreams :
             /\ StreamVoiceChat(s, transcribed, stream)
             /\ response' = StreamVoiceChatResponse(s, transcribed)
       /\ UNCHANGED <<apVars, connVars, wsVars, smVars, ttsVars, app, polled>>
    \/ /\ app = "main"
       /\ \E p \in ApiRequestSlots : tasks[p].status = "none"
       /\ \E s \in SessionIds, transcribed \in BOOLEAN,
             outcome \in LlmOutcomes(ApiReplies), ttsOk \in BOOLEAN :
             /\ VoiceChat(s, transcribed, outcome, ttsOk)
             /\ response' = VoiceChatResponse(s, transcribed, ttsOk)
       /\ UNCHANGED <<apVars, connVars, wsVars, smVars, ttsVars, app, polled>>
    \/ /\ app = "main"
       /\ \E p \in TaskIds, ok \in BOOLEAN : ProducerStep(p, ok)
       /\ UNCHANGED <<apVars, connVars, wsVars, smVars, ttsVars, apiVars, polled>>
    \/ /\ app = "main"
       /\ \E s \in SessionIds :
             /\ GetAudioChunks(s)
             /\ response' = GetAudioChunksResponse(s)
       /\ UNCHANGED <<apVars, connVars, wsVars, smVars, ttsVars, app, polled>>
    \/ /\ app = "main"
       /\ \E s \in SessionIds :
             /\ StopSession(s)
             /\ response' = StopSessionResponse(s)
       /\ UNCHANGED <<apVars, connVars, wsVars, smVars, ttsVars, app, polled>>
    \/ /\ app = "main"
       /\ \E s \in SessionIds :
             /\ SessionHistory(s)
             /\ response' = SessionHistoryResponse(s)
       /\ UNCHANGED <<apVars, connVars, wsVars, smVars, ttsVars, app, polled>>
    \/ /\ app = "main"
       /\ \E s \in SessionIds :
             /\ ClearSession(s)
             /\ response' = ClearSessionResponse(s)
       /\ UNCHANGED <<apVars, connVars, wsVars, smVars, ttsVars, app, polled>>
    \/ /\ app = "api_v2"
       /\ \E t \in TranscribeResults, outcome \in LlmOutcomes(WsReplies) :
             WsProcessAudio(t, outcome)
       /\ UNCHANGED <<apVars, connVars, mainVars, smVars, ttsVars, apiVars>>
    \/ /\ app = "api_v2"
       /\ \E outcome \in LlmOutcomes(WsReplies) : WsProcessText(Transcription, outcome)
       /\ UNCHANGED <<apVars, connVars, mainVars, smVars, ttsVars, apiVars>>
    \/ /\ app = "api_v2"
       /\ \E ok \in BOOLEAN : WsSpeakChunk(ok)
       /\ UNCHANGED <<apVars, connVars, mainVars, smVars, ttsVars, apiVars>>
    \/ /\ app = "api_v2"
       /\ WsClearSession
       /\ UNCHANGED <<apVars, connVars, mainVars, smVars, ttsVars, apiVars>>
    \/ /\ app = "api_v2"
       /\ \E kind \in WsMalformedKinds : WsMalformed(kind)
       /\ UNCHANGED <<apVars, connVars, mainVars, smVars, ttsVars, apiVars>>

\* the two servers with what they answer: main.py (HTTP) or api_v2.py (WebSocket)
SpecApi == ApiInit /\ [][ApiNext]_vars

\* fragments of the streams of a producer followed alone
FragHi == <<"H", "i", ".">>
FragSpace == <<" ">>
FragHelloHowAre == <<"H","e","l","l","o"," ","t","h","e","r","e","."," ","H","o","w",","," ","a","r","e">>
FragNoBreak == <<"H","e","l","l","o"," ","t","h","e","r","e"," ","h","o","w">>

\* a fragment of n characters that holds no break character
Letters(n) == [i \in 1..n |-> "a"]

\* one fragment longer than max_buffer_size with its only '.' near its start
FragLong == FragHello \o FragSpace \o Letters(max_buffer_size)

\* streams that end with an open remainder, a blank one, none, a closed one;
\* streams with a ',' behind the last '.', with no break character, and with
\* one long fragment
SoloStreams ==
    {<<FragOk>>, <<FragHello, FragSpace>>, <<FragHello>>, <<FragHi>>,
     <<FragHelloHowAre, FragOk>>, <<FragNoBreak, FragOk>>, <<FragLong, FragOk>>}

SoloInit ==
    /\ app \in {"main", "audio_processor", "api_v2"}
    /\ response = NoResponse
    /\ MainIdle
    /\ WsIdle
    /\ ConnIdle
    /\ SmIdle
    /\ TtsIdle
    /\ ap_generator \in (IF app = "audio_processor" THEN ApStreams ELSE {<<>>})
    /\ ap_pc = "streaming"
    /\ ap_is_processing = TRUE
    /\ ap_current_response = <<>>
    /\ ap_sentence_buffer = <<>>
    /\ ap_audio_chunks = <<>>
    /\ ap_all_audio = <<>>
    /\ ap_emitted = <<>>
    /\ ap_handed = <<>>
    /\ ap_step = [n |-> 0, units |-> <<>>]
    /\ ap_raised = FALSE
    /\ ap_delivered = <<>>

SoloNext ==
    \/ /\ app = "main"
       /\ \E p \in ApiRequestSlots : tasks[p].status = "none"
       /\ \E s \in SessionIds, transcribed \in BOOLEAN, stream \in SoloStreams :
             StreamVoiceChat(s, transcribed, stream)
       /\ UNCHANGED <<apVars, connVars, apiVars, wsVars, smVars, ttsVars, polled>>
    \/ /\ app = "main"
       /\ \E p \in TaskIds, ok \in BOOLEAN : ProducerStep(p, ok)
       /\ UNCHANGED <<apVars, connVars, apiVars, wsVars, smVars, ttsVars, polled>>
    \/ /\ app = "main"
       /\ \E s \in SessionIds : GetAudioChunks(s)
       /\ UNCHANGED <<apVars, connVars, apiVars, wsVars, smVars, ttsVars, polled>>
    \/ /\ app = "main"
       /\ \E s \in SessionIds : StopSession(s)
       /\ UNCHANGED <<apVars, connVars, apiVars, wsVars, smVars, ttsVars, polled>>
    \/ /\ app = "audio_processor"
       /\ ApFeed
       /\ UNCHANGED <<mainVars, apiVars, wsVars, connVars, smVars, ttsVars>>
    \/ /\ app = "audio_processor"
       /\ ApFinish
       /\ UNCHANGED <<mainVars, apiVars, wsVars, connVars, smVars, ttsVars>>
    \/ /\ app = "audio_processor"
       /\ ApStop
       /\ UNCHANGED <<mainVars, apiVars, wsVars, connVars, smVars, ttsVars>>
    \/ /\ app = "audio_processor"
       /\ ApGetChunks
       /\ UNCHANGED <<mainVars, apiVars, wsVars, connVars, smVars, ttsVars>>
    \/ /\ app = "api_v2"
       /\ \E t \in TranscribeResults, outcome \in LlmOutcomes(WsReplies) :
             WsProcessAudio(t, outcome)
       /\ UNCHANGED <<apVars, connVars, mainVars, apiVars, smVars, ttsVars>>
    \/ /\ app = "api_v2"
       /\ \E outcome \in LlmOutcomes(WsReplies) : WsProcessText(Transcription, outcome)
       /\ UNCHANGED <<apVars, connVars, mainVars, apiVars, smVars, ttsVars>>
    \/ /\ app = "api_v2"
       /\ \E ok \in BOOLEAN : WsSpeakChunk(ok)
       /\ UNCHANGED <<apVars, connVars, mainVars, apiVars, smVars, ttsVars>>

\* one run of each of the three programs that hand text to the backend
SpecSolo == SoloInit /\ [][SoloNext]_vars

\* the session whose requests are followed
RunsSession == "s1"

\* "response_so_far": session.current_response of a drain of session s, noted
\* for the run the drain belongs to
Polled(s) ==
    [p \in TaskIds |->
        IF p \in ActiveTasks(s) /\ ~Superseded(p) /\ s \in DOMAIN active_sessions
        THEN active_sessions[s].current_response
        ELSE polled[p]]

\* the event loop resumes task p
RunProducer(p) ==
    /\ \E ok \in BOOLEAN : ProducerStep(p, ok)
    /\ UNCHANGED <<apVars, connVars, apiVars, wsVars, smVars, ttsVars, polled>>

RunsNext ==
    \/ /\ \E transcribed \in BOOLEAN, stream \in LLMStreams :
             StreamVoiceChat(RunsSession, transcribed, stream)
       /\ UNCHANGED <<apVars, connVars, apiVars, wsVars, smVars, ttsVars, polled>>
    \/ \E p \in TaskIds : RunProducer(p)
    \/ /\ GetAudioChunks(RunsSession)
       /\ polled' = Polled(RunsSession)
       /\ UNCHANGED <<apVars, connVars, apiVars, wsVars, smVars, ttsVars>>
    \/ /\ StopSession(RunsSession)
       /\ UNCHANGED <<apVars, connVars, apiVars, wsVars, smVars, ttsVars, polled>>
    \/ /\ ClearSession(RunsSession)
       /\ UNCHANGED <<apVars, connVars, apiVars, wsVars, smVars, ttsVars, polled>>

\* the requests of one session and its background tasks
SpecRuns == Init /\ [][RunsNext]_vars

\* the same under the scheduling of asyncio: a task that sleeps in
\* "await asyncio.sleep(0.01)", or that was added and not started, is resumed
SpecLive == Init /\ [][RunsNext]_vars /\ \A p \in TaskIds : WF_vars(RunProducer(p))

ConnNext ==
    \/ /\ \E w \in Sockets, c \in ClientIds : ConnConnect(w, c)
       /\ UNCHANGED <<apVars, mainVars, apiVars, wsVars, smVars, ttsVars>>
    \/ /\ \E w \in Sockets : ConnSendMessage(w)
       /\ UNCHANGED <<apVars, mainVars, apiVars, wsVars, smVars, ttsVars>>
    \/ /\ \E w \in Sockets : ConnDisconnect(w)
       /\ UNCHANGED <<apVars, mainVars, apiVars, wsVars, smVars, ttsVars>>

\* the ConnectionManager of api_v2.py and the connections of its clients
SpecConn == ApiInit /\ [][ConnNext]_vars

SessInit ==
    /\ SmIdle
    /\ TtsIdle
    /\ MainIdle
    /\ WsIdle
    /\ ConnIdle
    /\ ApIdle
    /\ response = NoResponse
    /\ app = "main"

SessNext ==
    \/ Tick /\ UNCHANGED <<apVars, connVars, mainVars, apiVars, wsVars, ttsVars>>
    \/ /\ \E s \in SmSessionIds : SmCreateSession(s)
       /\ UNCHANGED <<apVars, connVars, mainVars, apiVars, wsVars, ttsVars>>
    \/ /\ SmCleanupExpiredSessions
       /\ UNCHANGED <<apVars, connVars, mainVars, apiVars, wsVars, ttsVars>>
    \/ /\ \E s \in SmSessionIds : SmGetSession(s)
       /\ UNCHANGED <<apVars, connVars, mainVars, apiVars, wsVars, ttsVars>>
    \/ /\ \E s \in SmSessionIds : SmUpdateSession(s)
       /\ UNCHANGED <<apVars, connVars, mainVars, apiVars, wsVars, ttsVars>>
    \/ /\ \E s \in SmSessionIds : SmDeleteSession(s)
       /\ UNCHANGED <<apVars, connVars, mainVars, apiVars, wsVars, ttsVars>>
    \/ /\ \E s \in SmSessionIds : SmAddMessage(s, "user")
       /\ UNCHANGED <<apVars, connVars, mainVars, apiVars, wsVars, ttsVars>>
    \/ /\ \E s \in SmSessionIds : SmGetMessages(s)
       /\ UNCHANGED <<apVars, connVars, mainVars, apiVars, wsVars, ttsVars>>
    \/ /\ \E s \in SmSessionIds : SmClearMessages(s)
       /\ UNCHANGED <<apVars, connVars, mainVars, apiVars, wsVars, ttsVars>>
    \/ /\ \E s \in SmSessionIds : SmExportSession(s)
       /\ UNCHANGED <<apVars, connVars, mainVars, apiVars, wsVars, ttsVars>>
    \/ /\ \E s \in SmSessionIds : SmWriteRecording(s)
       /\ UNCHANGED <<apVars, connVars, mainVars, apiVars, wsVars, ttsVars>>

\* a SessionManager and the clock
SpecSess == SessInit /\ [][SessNext]_vars

TtsNext ==
    \/ /\ Tick
       /\ UNCHANGED <<apVars, connVars, mainVars, apiVars, wsVars, ttsVars>>
    \/ /\ \E m \in TtsManagers : TtsConstruct(m)
       /\ UNCHANGED <<apVars, connVars, mainVars, apiVars, wsVars, smVars, tts_log>>
    \/ /\ \E m \in TtsManagers :
             /\ m \in DOMAIN tts_managers
             /\ Len(tts_managers[m].all_audio) < MaxMessages
             /\ TtsProcessChunk(m, FragOk, TRUE)
       /\ UNCHANGED <<apVars, connVars, mainVars, apiVars, wsVars, smVars, tts_log>>
    \/ /\ \E m \in TtsManagers : TtsSaveCompleteAudio(m)
       /\ UNCHANGED <<apVars, connVars, mainVars, apiVars, wsVars, smVars, tts_log>>
    \/ /\ \E m \in TtsManagers : TtsReset(m)
       /\ UNCHANGED <<apVars, connVars, mainVars, apiVars, wsVars, smVars, tts_log>>

\* the speech managers of one process and the clock
SpecTts == SessInit /\ [][TtsNext]_vars

\* the manager whose calls are logged
WaveManager == "m1"

\* the texts process_chunk is called with: empty, blank, two units
WaveTexts == {<<>>, FragSpace, FragOk, FragHi}

\* a logged process_chunk call
ChunkCall(text, ok) == [op |-> "process_chunk", text |-> text, ok |-> ok]

\* a logged reset call
ResetCall == [op |-> "reset", text |-> <<>>, ok |-> TRUE]

WaveNext ==
    \/ /\ TtsConstruct(WaveManager)
       /\ UNCHANGED <<apVars, connVars, mainVars, apiVars, wsVars, smVars, tts_log>>
    \/ /\ Len(tts_log) < MaxCalls
       /\ \E text \in WaveTexts, ok \in BOOLEAN :
             /\ TtsProcessChunk(WaveManager, text, ok)
             /\ tts_log' = Append(tts_log, ChunkCall(text, ok))
       /\ UNCHANGED <<apVars, connVars, mainVars, apiVars, wsVars, smVars>>
    \/ /\ Len(tts_log) < MaxCalls
       /\ TtsReset(WaveManager)
       /\ tts_log' = Append(tts_log, ResetCall)
       /\ UNCHANGED <<apVars, connVars, mainVars, apiVars, wsVars, smVars>>

\* one StreamingTTSManager under process_chunk and reset calls
SpecWave == SessInit /\ [][WaveNext]_vars

----------------------------------------------------------------------------
\* Claims about the regex segmenter (checked under SpecSeg)

\* what the segmenter has emitted so far, followed by what it retains
ApReassembled == Concat(ap_emitted) \o ap_sentence_buffer

\* C1 as stated: the emitted sentence units in emission order followed by the
\* retained remainder are exactly the concatenation of the fragments consumed.
C1_LosslessExact == ApReassembled = ap_current_response

\* C1 amended: units plus remainder reproduce the consumed text up to
\* whitespace: the same non-whitespace characters in the same order (none
\* dropped, none duplicated), and nothing is added.
C1_LosslessUpToWhitespace ==
    /\ NonSpace(ApReassembled) = NonSpace(ap_current_response)
    /\ Len(ApReassembled) <= Len(ap_current_response)

\* C1 witness: two units were emitted and boundary whitespace was dropped
C1_Witness ==
    /\ Len(ap_emitted) >= 2
    /\ Len(ApReassembled) < Len(ap_current_response)

\* the state after exactly one feed step that consumed the one-delta example
AfterOneDelta == ap_step.n = 1 /\ ap_current_response = HelloAll

\* C2 as stated: the single fragment "Hello there. How are you? I'm fine!"
\* yields three units from that feed step and an empty remainder.
C2_ThreeUnitsAtOnce ==
    AfterOneDelta =>
        /\ ap_step.units = <<UnitHelloThere, UnitHowAreYou, UnitImFine>>
        /\ ap_sentence_buffer = <<>>

\* C2 amended: that feed step yields exactly the two units "Hello there." and
\* "How are you?" in that order and retains "I'm fine!"; the third unit is
\* handed to synthesis only when the stream ends with the run still processing.
C2_TwoUnitsThenFlush ==
    AfterOneDelta =>
        /\ ap_step.units = <<UnitHelloThere, UnitHowAreYou>>
        /\ ap_sentence_buffer = UnitImFine
        /\ (ap_pc = "streaming" => UnitImFine \notin {ap_handed[i] : i \in DOMAIN ap_handed})
        /\ (ap_pc = "returned" /\ ap_is_processing =>
                ap_handed = <<UnitHelloThere, UnitHowAreYou, UnitImFine>>)

\* C2 witness: the example ran to its normal return
C2_Witness ==
    /\ AfterOneDelta
    /\ ap_pc = "returned"
    /\ ap_handed = <<UnitHelloThere, UnitHowAreYou, UnitImFine>>

\* the states after the first and after the second feed step of the two-delta example
AfterFirstDelta == ap_step.n = 1 /\ ap_current_response = HelloThe
AfterSecondDelta == ap_step.n = 2 /\ ap_current_response = HelloThe \o ReHow

\* C3 as stated: "Hello the" yields nothing and is retained; "re. How are you?"
\* then yields two units and an empty remainder.
C3_TwoUnitsSecondDelta ==
    /\ AfterFirstDelta => ap_step.units = <<>> /\ ap_sentence_buffer = HelloThe
    /\ AfterSecondDelta =>
          /\ ap_step.units = <<UnitHelloThere, UnitHowAreYou>>
          /\ ap_sentence_buffer = <<>>

\* C3 amended: the first feed step yields nothing and retains "Hello the"; the
\* second yields the one unit "Hello there." and retains "How are you?".
C3_OneUnitSecondDelta ==
    /\ AfterFirstDelta => ap_step.units = <<>> /\ ap_sentence_buffer = HelloThe
    /\ AfterSecondDelta =>
          /\ ap_step.units = <<UnitHelloThere>>
          /\ ap_sentence_buffer = UnitHowAreYou

\* C3 witness: both deltas were consumed
C3_Witness == AfterSecondDelta /\ ap_emitted = <<UnitHelloThere>>

----------------------------------------------------------------------------
\* Claims about the polling API (checked under Spec)

\* everything session s has handed or still has to hand to its readers
Deliverable(s) == hist[s].delivered \o active_sessions[s].audio_chunks

C5_SecondDrainEmpty ==
    \A s \in DOMAIN active_sessions :
        hist[s].polls >= 2 =>
            /\ hist[s].repeat_chunks = <<>>
            /\ active_sessions[s].audio_chunks = <<>>

\* C5 witness: a drain that returned chunks was followed directly by another
C5_Witness ==
    \E s \in DOMAIN active_sessions :
        hist[s].polls >= 2 /\ hist[s].delivered # <<>>

\* the chunks of each run appear in the order of the run's units
InUnitOrder(chunks) ==
    \A i, j \in DOMAIN chunks :
        i < j /\ chunks[i].run = chunks[j].run => chunks[i].idx < chunks[j].idx

\* C6: the chunks a session's drains return, in the order returned, followed
\* by those still queued list each run's chunks in the order of its sentence
\* units in the text stream (FIFO, no reordering).
C6_FifoOrder ==
    \A s \in DOMAIN active_sessions : InUnitOrder(Deliverable(s))

\* C6 witness: two chunks of one run were drained and a later one is queued
C6_Witness ==
    \E s \in DOMAIN active_sessions :
        /\ Len(hist[s].delivered) >= 2
        /\ active_sessions[s].audio_chunks # <<>>
        /\ \A i \in DOMAIN Deliverable(s) : Deliverable(s)[i].run = Deliverable(s)[1].run

\* C7 as stated: a run cancelled by stop_session while producing enqueues no
\* chunk afterwards besides the one of a unit that was in flight at the cancel.
C7_CancelStopsEnqueue ==
    \A p \in TaskIds : run_hist[p].cancelled => run_hist[p].after_cancel <= 1

\* C8 as stated: a session never has two background producers that both
\* append to its chunk queue within one run.
C8_OneProducerPerSession ==
    \A s \in SessionIds :
        Cardinality({hist[s].synthesized[i].run : i \in DOMAIN hist[s].synthesized}) <= 1

\* C9 as stated, for AudioProcessor.process_stream: once the run has ended
\* the processing flag is false.
C9_FlagFalseAfterRun == ap_pc = "returned" => ~ap_is_processing

\* C10 as stated: a synthesis failure of one unit does not abort the run.
C10_RunSurvivesSynthesisFailure == \A p \in TaskIds : tasks[p].status # "failed"

\* the step is a stream_voice_chat for session s that was transcribed and
\* started background task p
BeginStep(s, p) ==
    /\ tasks[p].status = "none"
    /\ tasks'[p].status = "active"
    /\ tasks'[p].sid = s

\* C18: right after stream_voice_chat begins a run on an existing session,
\* the session's pending chunk queue and accumulated response text are empty
\* and its processing flag is true; the messages of earlier turns are still
\* there in front of the new user message, no session key is added and every
\* other session is unchanged.
C18_BeginRunFrame ==
    [][\A s \in SessionIds, p \in TaskIds :
          BeginStep(s, p) /\ s \in DOMAIN active_sessions =>
              /\ active_sessions'[s].audio_chunks = <<>>
              /\ active_sessions'[s].current_response = <<>>
              /\ active_sessions'[s].is_processing
              /\ Len(active_sessions'[s].messages) = Len(active_sessions[s].messages) + 1
              /\ SubSeq(active_sessions'[s].messages, 1, Len(active_sessions[s].messages))
                    = active_sessions[s].messages
              /\ DOMAIN active_sessions' = DOMAIN active_sessions
              /\ \A o \in DOMAIN active_sessions \ {s} :
                    active_sessions'[o] = active_sessions[o]]_vars

\* C18 witness: a second run has just begun on a session that holds the two
\* messages of its first run, which synthesized at least one unit
C18_Witness ==
    \E p \in TaskIds :
        /\ tasks[p].status = "active"
        /\ tasks[p].text_buffer = <<>>
        /\ run_hist[p].units = 0
        /\ Len(active_sessions[tasks[p].sid].messages) = 3
        /\ active_sessions[tasks[p].sid].audio_chunks = <<>>
        /\ active_sessions[tasks[p].sid].is_processing
        /\ \E q \in TaskIds : tasks[q].status = "done" /\ run_hist[q].units >= 1

----------------------------------------------------------------------------
\* Claims about the two servers and their answers (checked under SpecApi)

\* the messages of a given type among those sent for the current message
WsSent(type) == SelectSeq(ws_out, LAMBDA msg : msg.type = type)

\* the uploads of session s that were transcribed
Accepted(s) ==
    {p \in TaskIds : tasks[p].sid = s /\ tasks[p].status \notin {"none", "rejected"}}

\* the messages of role user in the history of session s
UserMessages(s) ==
    SelectSeq(active_sessions[s].messages, LAMBDA msg : msg.role = "user")

\* C11: when transcription yields no text the run is aborted before any
\* synthesis: no LLM call, no TTS call, no audio chunk enqueued or sent, no
\* message appended to the history, and the caller is told of an error
\* (WebSocket process_audio_message; HTTP stream_voice_chat and voice_chat).
C11_NoTranscriptionAbortsRun ==
    /\ ws_run.kind = "audio" /\ ws_run.heard = <<>> =>
          /\ ws_pc = "idle"
          /\ ws_run.llm_calls = 0
          /\ ws_run.tts_calls = 0
          /\ WsSent("audio_response_chunk") = <<>>
          /\ WsSent("text_response") = <<>>
          /\ Len(ws_history) = ws_run.history_before
          /\ ws_out[Len(ws_out)].type = "error"
    /\ \A p \in TaskIds : tasks[p].status = "rejected" =>
          /\ tasks[p].gen = <<>>
          /\ run_hist[p].units = 0
          /\ \A s \in DOMAIN active_sessions :
                /\ \A i \in DOMAIN active_sessions[s].audio_chunks :
                      active_sessions[s].audio_chunks[i].run # p
                /\ Len(UserMessages(s)) <= Cardinality(Accepted(s))
          /\ (response.op \in {"stream_voice_chat", "voice_chat"}
                 /\ Accepted(response.sid) = {} => response.status >= 400)

\* C11 witness: a WebSocket client with a history sent audio that gave no
\* text and got the error
C11_Witness ==
    /\ ws_run.kind = "audio"
    /\ ws_run.aborted
    /\ ws_history # <<>>
    /\ ws_out[Len(ws_out)].type = "error"

\* the lookups that raise for a session id that is no key of active_sessions
RaisingLookups == {"get_audio_chunks", "session_history", "clear_session"}

\* C13 as stated: get_audio_chunks, stop_session, session_history and
\* clear_session called with a session key that is not in active_sessions
\* answer with an error and create no session.
C13_UnknownKeyIsError ==
    response.op \in RaisingLookups \cup {"stop_session"} /\ ~response.known =>
        /\ response.status >= 400
        /\ response.sid \notin DOMAIN active_sessions

\* C13 amended: with an unknown session key get_audio_chunks, session_history
\* and clear_session answer with an error, stop_session answers 200 with
\* status "stopped"; none of the four creates a session.
C13_UnknownKeyErrorButStop ==
    /\ response.op \in RaisingLookups /\ ~response.known =>
          /\ response.status >= 400
          /\ response.sid \notin DOMAIN active_sessions
    /\ response.op = "stop_session" /\ ~response.known =>
          /\ response.status = 200
          /\ response.detail = "stopped"
          /\ response.sid \notin DOMAIN active_sessions

\* C13 witness: stop_session was called for an unknown session while another
\* session exists
C13_Witness ==
    /\ response.op = "stop_session"
    /\ ~response.known
    /\ DOMAIN active_sessions # {}

\* C14 as stated: get_audio_chunks, session_history and clear_session called
\* with an unknown session id answer with status 404 and detail
\* "Session not found".
C14_UnknownKeyIs404 ==
    response.op \in RaisingLookups /\ ~response.known =>
        /\ response.status = 404
        /\ response.detail = "Session not found"

\* the step is a clear_session(s) that answers "cleared"
ClearedStep(s) ==
    /\ s \in DOMAIN active_sessions
    /\ ClearSession(s)
    /\ response' = ClearSessionResponse(s)

\* C15 as stated: when clear_session(s) has answered "cleared", session s
\* holds no state of earlier runs: history, pending chunk queue and
\* accumulated response text are empty, the processing flag is false and the
\* running waveform buffer is empty.
C15_ClearLeavesNoRunState ==
    [][\A s \in SessionIds : ClearedStep(s) =>
          /\ active_sessions'[s].messages = <<>>
          /\ active_sessions'[s].audio_chunks = <<>>
          /\ active_sessions'[s].current_response = <<>>
          /\ ~active_sessions'[s].is_processing
          /\ active_sessions'[s].all_audio = <<>>]_vars

\* the step is a session_history(s) on an existing session
HistoryStep(s) ==
    /\ s \in DOMAIN active_sessions
    /\ SessionHistory(s)
    /\ response' = SessionHistoryResponse(s)

\* C16: session_history(s) returns the messages of session s in the order
\* they were appended, each as role and content without its audio_path, and
\* leaves the stored history unchanged: the stored messages keep their
\* audio_path.
C16_HistoryOrderedWithoutPaths ==
    [][\A s \in SessionIds : HistoryStep(s) =>
          LET stored == active_sessions[s].messages
              body == response'.body
          IN /\ response'.status = 200
             /\ Len(body) = Len(stored)
             /\ \A i \in DOMAIN stored :
                   /\ body[i] = [role |-> stored[i].role, content |-> stored[i].content]
                   /\ "audio_path" \in DOMAIN active_sessions'[s].messages[i]
             /\ active_sessions' = active_sessions]_vars

\* C16 witness: the history of a finished run was returned, user message
\* first, and the stored messages still carry their audio_path
C16_Witness ==
    /\ response.op = "session_history"
    /\ response.status = 200
    /\ Len(response.body) = 2
    /\ response.body[1].role = "user"
    /\ response.body[2].role = "assistant"
    /\ response.sid \in DOMAIN active_sessions
    /\ Len(active_sessions[response.sid].messages) = 2
    /\ active_sessions[response.sid].messages[2].audio_path = "complete"

\* the text get_llm_response returns for a failure of the given kind
LlmFailureText(kind) ==
    IF kind = "no_key" THEN LlmNoKeyText ELSE LlmErrorPrefix \o ErrText

\* the last fragment stream_llm_response yields for a failure of the given kind
StreamFailureText(kind) ==
    IF kind = "no_key" THEN LlmNoKeyText ELSE LlmStreamErrorPrefix \o ErrText

\* task p is the one request of its session, and the session was neither
\* stopped nor cleared since the request arrived
Undisturbed(p) ==
    /\ \A q \in TaskIds \ {p} : tasks[q].status = "none" \/ tasks[q].sid # tasks[p].sid
    /\ ~run_hist[p].cancelled
    /\ active_sessions[tasks[p].sid].messages # <<>>
    /\ active_sessions[tasks[p].sid].messages[1].role = "user"

\* the texts of the chunks synthesized for session s since its run began
SynthesizedTexts(s) ==
    [i \in DOMAIN hist[s].synthesized |-> hist[s].synthesized[i].text]

\* C17: a failure of the upstream LLM is not raised: get_llm_response returns
\* an error text and stream_llm_response yields it as its last fragment, and
\* the run that consumes it goes on: the error text is recorded as the
\* assistant response and is segmented and synthesized like any other text.
C17_LlmFailureBecomesText ==
    /\ ws_run.llm \in {"no_key", "raised"} =>
          /\ ws_run.llm_calls = 1
          /\ ws_history[Len(ws_history)] =
                [role |-> "assistant", content |-> LlmFailureText(ws_run.llm)]
          /\ WsSent("text_response") =
                <<WsMsg("text_response", LlmFailureText(ws_run.llm), -1, FALSE)>>
          /\ ws_text_chunks = TextChunks(LlmFailureText(ws_run.llm))
          /\ ws_text_chunks # <<>>
          /\ (ws_pc = "idle" => ws_run.tts_calls = Len(ws_text_chunks))
    /\ \A p \in TaskIds :
          tasks[p].status = "answered" /\ tasks[p].llm # "text" /\ Undisturbed(p) =>
              LET messages == active_sessions[tasks[p].sid].messages
              IN /\ Len(messages) = 2
                 /\ messages[2].role = "assistant"
                 /\ messages[2].content = LlmFailureText(tasks[p].llm)
    /\ \A p \in TaskIds :
          tasks[p].status = "done" /\ tasks[p].llm # "text" /\ Undisturbed(p) =>
              LET session == active_sessions[tasks[p].sid]
              IN /\ EndsWith(session.current_response, StreamFailureText(tasks[p].llm))
                 /\ \E stream \in ApiStreams :
                       session.current_response = Concat(stream)
                 /\ Len(session.messages) = 2
                 /\ session.messages[2] =
                       [role |-> "assistant", content |-> session.current_response,
                        audio_path |-> "complete"]
                 /\ NonSpace(Concat(SynthesizedTexts(tasks[p].sid)))
                       = NonSpace(session.current_response)

\* C17 witness: the upstream raised after its first chunk; the run ended with
\* both the chunk and the error text recorded and synthesized
C17_Witness ==
    \E p \in TaskIds :
        /\ tasks[p].status = "done"
        /\ tasks[p].llm = "raised"
        /\ Undisturbed(p)
        /\ active_sessions[tasks[p].sid].current_response
              = FragHello \o LlmStreamErrorPrefix \o ErrText
        /\ Len(hist[tasks[p].sid].synthesized) >= 2

\* C20 as stated: in every WebSocket run whose response has at least one
\* non-empty text chunk exactly one audio_response_chunk message carries
\* end = true and it is the last audio message of the run, also when the
\* synthesis of a chunk fails.
C20_ExactlyOneEndAndLast ==
    ws_pc = "idle" /\ ws_run.kind \in {"audio", "text"} /\ ~ws_run.aborted
        /\ ws_text_chunks # <<>> =>
            LET audio == WsSent("audio_response_chunk")
            IN /\ Cardinality({i \in DOMAIN audio : audio[i].end}) = 1
               /\ audio[Len(audio)].end

----------------------------------------------------------------------------
\* Claims about the SessionManager (checked under SpecSess)

\* C12 as stated: a session without activity for longer than expiry_seconds
\* is absent from every later lookup (no call returns or mutates its old
\* record), and the files tagged with the id of a removed session are gone.
C12_ExpiredSessionGone ==
    /\ sm_last.expired => ~sm_last.hit
    /\ \A f \in sm_files : f.tag \in DOMAIN sm_sessions

----------------------------------------------------------------------------
\* Claims about the speech managers (checked under SpecTts)

\* C19 as stated: reset() assigns a fresh run identifier, different from the
\* one before and from that of every other live manager, so that no export
\* of a complete waveform replaces the file of another run.
C19_ResetAssignsFreshId ==
    /\ tts_last.op = "reset" =>
          /\ tts_last.after # tts_last.before
          /\ tts_last.after \notin tts_last.others
    /\ tts_last.op = "save" => ~tts_last.clobbered

----------------------------------------------------------------------------
\* Claims about the order of the WebSocket messages (checked under SpecApi)

\* the positions of ws_out that hold a message of the given type
Positions(type) == {i \in DOMAIN ws_out : ws_out[i].type = type}

\* C21: for one text_input or audio message the server sends status
\* "processing" first, then (audio input only) the transcription, then the
\* complete text_response, then the audio_response_chunk messages: no audio
\* chunk precedes the text_response, and the audio chunks carry strictly
\* increasing chunk_index.
C21_MessageOrder ==
    (ws_run.kind \in {"text", "audio"}) =>
        /\ ws_out[1] = StatusProcessing
        /\ Positions("status") = {1}
        /\ Positions("transcription") =
              IF ws_run.kind = "audio" /\ ~ws_run.aborted THEN {2} ELSE {}
        /\ Positions("text_response") =
              IF ws_run.aborted THEN {}
              ELSE IF ws_run.kind = "audio" THEN {3} ELSE {2}
        /\ \A i \in Positions("audio_response_chunk") :
              \A j \in Positions("text_response") : j < i
        /\ \A i, j \in Positions("audio_response_chunk") :
              i < j => ws_out[i].chunk_index < ws_out[j].chunk_index

\* an audio message was transcribed and answered, and two audio chunks of the
\* answer were sent
C21_Witness ==
    /\ ws_run.kind = "audio"
    /\ ~ws_run.aborted
    /\ Cardinality(Positions("audio_response_chunk")) = 2
    /\ ws_pc = "idle"

----------------------------------------------------------------------------
\* Claims about the frame of session removal (checked under SpecSess)

\* the sessions a step removes from self.sessions
RemovedSessions == DOMAIN sm_sessions \ DOMAIN sm_sessions'

\* C22: deleting, expiring or clearing session s changes only s: a step
\* modifies no record of a session other than the one it is called for, and
\* every temporary file it removes belongs to a session it removes, also
\* when one session id is a substring of the other.
C22_RemovalTouchesOnlyItsSession ==
    [][/\ \A t \in DOMAIN sm_sessions \cap DOMAIN sm_sessions' :
             t # sm_last'.sid => sm_sessions'[t] = sm_sessions[t]
       /\ \A f \in sm_files \ sm_files' : f.by \in RemovedSessions]_vars

----------------------------------------------------------------------------
\* Claims about the processing flag of the polling API (checked under SpecApi)

\* session.is_processing of session s, FALSE while s has no session
FlagOf(sessions, s) == s \in DOMAIN sessions /\ sessions[s].is_processing

\* the step is a stream_voice_chat request for session s
StreamRequestStep(s) ==
    /\ response'.op = "stream_voice_chat"
    /\ response'.sid = s
    /\ \E p \in TaskIds : /\ tasks[p].status = "none"
                          /\ tasks'[p].status # "none"
                          /\ tasks'[p].sid = s

\* C23: a session's processing flag changes from false to true only through
\* a new stream_voice_chat request: after a run has completed or was
\* cancelled, no drain, stop, history, clear or producer step sets it to true.
C23_FlagRaisedOnlyByBeginRun ==
    [][\A s \in SessionIds :
          (~FlagOf(active_sessions, s) /\ FlagOf(active_sessions', s))
              => StreamRequestStep(s)]_vars

\* the run of a session was cancelled and has ended, its flag is down, and a
\* lookup of the history was answered after that
C23_Witness ==
    \E p \in TaskIds :
        /\ tasks[p].status = "done"
        /\ run_hist[p].cancelled
        /\ ~FlagOf(active_sessions, tasks[p].sid)
        /\ response.op = "session_history"
        /\ response.sid = tasks[p].sid
        /\ response.status = 200

----------------------------------------------------------------------------
\* Claims about one feed step of the regex segmenter (checked under SpecSeg)

\* the boundaries of a text: the positions of the whitespace that directly
\* follows a '.', '!' or '?'
Boundaries(buf) ==
    {i \in 2..Len(buf) : buf[i] \in Whitespace /\ buf[i - 1] \in Terminals}

\* the k-th boundary from the left
BoundaryAt(buf, k) ==
    CHOOSE b \in Boundaries(buf) : Cardinality({x \in Boundaries(buf) : x < b}) = k - 1

\* where the k-th fragment of a text starts: behind the whitespace of the
\* boundary before it
FragmentStart(buf, k) == IF k = 1 THEN 1 ELSE SkipSpace(buf, BoundaryAt(buf, k - 1))

\* the fragments that end at a boundary, from left to right
UnitsOf(buf) ==
    [k \in 1..Cardinality(Boundaries(buf)) |->
        SubSeq(buf, FragmentStart(buf, k), BoundaryAt(buf, k) - 1)]

\* the fragment behind the last boundary
LastFragment(buf) ==
    SubSeq(buf, FragmentStart(buf, Cardinality(Boundaries(buf)) + 1), Len(buf))

\* the step is a feed step of a run that is processing
FeedStep == ap_step'.n = ap_step.n + 1 /\ ap_is_processing

\* C24: a feed step appends the fragment to the buffer, splits the buffer at
\* the whitespace that follows '.', '!' or '?', emits every split fragment but
\* the last from left to right and keeps the last as the new buffer; a
\* fragment that adds no boundary emits nothing and only lengthens the
\* buffer, one that adds several boundaries emits as many units in that step.
C24_FeedStepSplits ==
    [][FeedStep =>
          LET buf == ap_sentence_buffer \o Head(ap_generator) IN
          /\ ap_emitted' = ap_emitted \o UnitsOf(buf)
          /\ ap_sentence_buffer' = LastFragment(buf)
          /\ ap_step'.units = UnitsOf(buf)
          /\ Boundaries(buf) = {} =>
                /\ ap_emitted' = ap_emitted
                /\ ap_sentence_buffer' = ap_sentence_buffer \o Head(ap_generator)
          /\ Boundaries(ap_sentence_buffer) = {}]_vars

\* a feed step that added no boundary was followed by one that added two and
\* emitted two units
C24_Witness ==
    /\ ap_step.n = 2
    /\ Len(ap_step.units) = 2
    /\ ap_emitted = ap_step.units
    /\ ap_is_processing

----------------------------------------------------------------------------
\* Claims about the end of the text stream (checked under SpecSolo)

\* the text holds a character that is no whitespace
HasText(text) == \E i \in DOMAIN text : text[i] \notin Whitespace

\* process_stream reaches "Process any remaining text" with the run processing
ApEndStep == ap_pc = "streaming" /\ ap_generator = <<>> /\ ap_pc' = "returned"

\* the producer p ends in this step without an exception, its run not cancelled
ProducerEndStep(p) ==
    /\ tasks[p].status = "active"
    /\ tasks'[p].status = "done"
    /\ active_sessions[tasks[p].sid].is_processing

\* the chunk the producer p makes of its retained buffer
FinalChunk(p) ==
    [run |-> p, idx |-> run_hist[p].units + 1, text |-> tasks'[p].text_buffer]

\* C25: when the stream ends and the run was not cancelled, the retained
\* buffer becomes one final unit exactly when it holds more than whitespace,
\* with or without a terminal at its end; an empty or whitespace-only
\* remainder gives no unit and no chunk.  This holds for
\* AudioProcessor.process_stream and for the producer of stream_voice_chat.
C25_FinalUnitIffNonBlank ==
    [][/\ (ApEndStep /\ ap_is_processing) =>
             IF HasText(ap_sentence_buffer)
             THEN /\ ap_handed' = Append(ap_handed, ap_sentence_buffer)
                  /\ ~ap_raised' =>
                        ap_audio_chunks' = Append(ap_audio_chunks, ap_sentence_buffer)
             ELSE /\ ap_handed' = ap_handed
                  /\ ap_audio_chunks' = ap_audio_chunks
       /\ \A p \in TaskIds : ProducerEndStep(p) =>
             LET s == tasks[p].sid IN
             IF HasText(tasks'[p].text_buffer)
             THEN /\ run_hist'[p].units = run_hist[p].units + 1
                  /\ hist'[s].synthesized = Append(hist[s].synthesized, FinalChunk(p))
                  /\ active_sessions'[s].audio_chunks =
                        Append(active_sessions[s].audio_chunks, FinalChunk(p))
             ELSE /\ run_hist'[p].units = run_hist[p].units
                  /\ hist'[s].synthesized = hist[s].synthesized
                  /\ active_sessions'[s].audio_chunks = active_sessions[s].audio_chunks
      ]_vars

\* a producer ended with the remainder "ok", which has no terminal, as the
\* only unit of its run
C25_Witness ==
    \E p \in TaskIds :
        /\ tasks[p].status = "done"
        /\ tasks[p].text_buffer = FragOk
        /\ run_hist[p].units = 1
        /\ ~run_hist[p].cancelled
        /\ hist[tasks[p].sid].synthesized = <<[run |-> p, idx |-> 1, text |-> FragOk]>>

----------------------------------------------------------------------------
\* Claims about the buffered-threshold segmenter (checked under SpecSolo)

\* the acceptable break characters
BreakCharacters == {".", ",", "!", "?", ":", ";", "\n"}

\* the fragments the producer p takes from its stream in this step
Taken(p) == SubSeq(tasks[p].gen, 1, Len(tasks[p].gen) - Len(tasks'[p].gen))

\* the buffer the producer p cuts in this step
Fed(p) == tasks[p].text_buffer \o Concat(Taken(p))

\* the position of the last break character of a text, 0 when it has none
LastBreak(b) ==
    IF \E i \in DOMAIN b : b[i] \in BreakCharacters
    THEN CHOOSE i \in DOMAIN b :
            /\ b[i] \in BreakCharacters
            /\ \A j \in DOMAIN b : j > i => b[j] \notin BreakCharacters
    ELSE 0

\* the producer p emits a unit in this step and its stream is still running
EmitStep(p) ==
    /\ tasks[p].status = "active"
    /\ tasks'[p].status = "active"
    /\ Len(hist'[tasks[p].sid].synthesized) = Len(hist[tasks[p].sid].synthesized) + 1

\* the text of the unit the producer p emits in this step
EmittedText(p) ==
    hist'[tasks[p].sid].synthesized[Len(hist'[tasks[p].sid].synthesized)].text

\* C26: every unit emitted while the stream is running is the prefix of the
\* buffer that ends at the last occurrence in the buffer of any acceptable
\* break character ('.', ',', '!', '?', ':', ';', newline), and the text
\* after that break stays in the buffer.
C26_UnitEndsAtLastBreak ==
    [][\A p \in TaskIds : EmitStep(p) =>
          /\ LastBreak(Fed(p)) > 0
          /\ EmittedText(p) = Strip(SubSeq(Fed(p), 1, LastBreak(Fed(p))))
          /\ tasks'[p].text_buffer =
                SubSeq(Fed(p), LastBreak(Fed(p)) + 1, Len(Fed(p)))]_vars

\* the producer p has handled a fragment in this step and goes on
HandledStep(p) ==
    /\ tasks[p].status = "active"
    /\ tasks'[p].status = "active"
    /\ Taken(p) # <<>>
    /\ active_sessions[tasks[p].sid].is_processing

\* C27: after each fragment has been handled while the run is processing,
\* the retained text buffer is shorter than max_buffer_size, for fragments of
\* any length.
C27_BufferBelowMax ==
    [][\A p \in TaskIds : HandledStep(p) =>
          Len(tasks'[p].text_buffer) < max_buffer_size]_vars

----------------------------------------------------------------------------
\* Claims about the full-waveform buffer of a manager (checked under SpecWave)

\* the samples of the units synthesized successfully since the last reset, in
\* call order, for a log of calls
RECURSIVE WaveOf(_)
WaveOf(log) ==
    IF log = <<>> THEN <<>>
    ELSE LET call == log[Len(log)]
             earlier == SubSeq(log, 1, Len(log) - 1)
         IN IF call.op = "reset" THEN <<>>
            ELSE IF call.ok /\ HasText(call.text)
                 THEN Append(WaveOf(earlier), call.text)
                 ELSE WaveOf(earlier)

\* C28: after any sequence of process_chunk and reset calls the running
\* full-waveform buffer is the concatenation, in call order, of the samples of
\* exactly the units synthesized successfully since the last reset: a call
\* that fails, or whose text is empty or whitespace-only, leaves it unchanged.
C28_WaveIsSuccessfulUnits ==
    WaveManager \in DOMAIN tts_managers =>
        tts_managers[WaveManager].all_audio = WaveOf(tts_log)

\* after a reset the manager met a failing call and spoke two different units
C28_Witness ==
    /\ WaveManager \in DOMAIN tts_managers
    /\ tts_managers[WaveManager].all_audio = <<FragOk, FragHi>>
    /\ \E i \in DOMAIN tts_log : tts_log[i].op = "reset"
    /\ \E i \in DOMAIN tts_log :
          tts_log[i].op = "process_chunk" /\ ~tts_log[i].ok /\ HasText(tts_log[i].text)

----------------------------------------------------------------------------
\* Claims about the calls of the synthesis backend (checked under SpecSolo)

\* a is the beginning of b
IsPrefix(a, b) == Len(a) <= Len(b) /\ SubSeq(b, 1, Len(a)) = a

\* the texts of the chunks in a sequence of chunks
TextsOf(chunks) == [i \in DOMAIN chunks |-> chunks[i].text]

\* the messages of the current run that name chunk i
ChunkMessages(i) == {k \in DOMAIN ws_out : ws_out[k].chunk_index = i}

\* C29: within a run every sentence unit is handed to the synthesis backend
\* at most once, without a retry after a failure: AudioProcessor hands the
\* emitted units and then the remainder, each once and in order; the
\* producer makes one call per unit and none after a call that failed; the
\* WebSocket loop makes one call per chunk index.
C29_EachUnitHandedOnce ==
    /\ IsPrefix(ap_handed, Append(ap_emitted, ap_sentence_buffer))
    /\ \A p \in TaskIds : tasks[p].status \in {"active", "done", "failed"} =>
          LET s == tasks[p].sid
              made == hist[s].synthesized
          IN /\ \A i \in DOMAIN made : made[i].run = p /\ made[i].idx = i
             /\ run_hist[p].units =
                   Len(made) + (IF tasks[p].status = "failed" THEN 1 ELSE 0)
             /\ IsPrefix(NonSpace(Concat(TextsOf(made))),
                         NonSpace(active_sessions[s].current_response))
    /\ (ws_run.kind \in {"text", "audio"}) =>
          /\ ws_run.tts_calls = ws_idx
          /\ ws_idx <= Len(ws_text_chunks)
          /\ \A i \in 0..(Len(ws_text_chunks) - 1) :
                Cardinality(ChunkMessages(i)) = IF i < ws_idx THEN 1 ELSE 0

\* a producer spoke one unit and its call for the next unit failed: the run
\* ended with two calls made for two units
C29_Witness ==
    \E p \in TaskIds :
        /\ tasks[p].status = "failed"
        /\ run_hist[p].units = 2
        /\ Len(hist[tasks[p].sid].synthesized) = 1

----------------------------------------------------------------------------
\* Claims about a failing chunk of the WebSocket loop (checked under SpecApi)

\* the messages of the given type that name chunk i
ChunkMessagesOf(type, i) == {k \in ChunkMessages(i) : ws_out[k].type = type}

\* C30: when text-to-speech fails for chunk i the server sends one error
\* message naming chunk i and no audio message for it, and goes on to
\* synthesize and send every later chunk with its original chunk_index.
C30_FailedChunkSkippedLoopGoesOn ==
    (ws_run.kind \in {"text", "audio"} /\ ~ws_run.aborted) =>
        /\ \A i \in 0..(ws_idx - 1) :
              \/ /\ Cardinality(ChunkMessagesOf("error", i)) = 1
                 /\ ChunkMessagesOf("audio_response_chunk", i) = {}
              \/ /\ ChunkMessagesOf("error", i) = {}
                 /\ Cardinality(ChunkMessagesOf("audio_response_chunk", i)) = 1
        /\ \A k \in Positions("audio_response_chunk") :
              ws_out[k].text = ws_text_chunks[ws_out[k].chunk_index + 1]
        /\ \A j, k \in Positions("audio_response_chunk") \cup Positions("error") :
              j < k => ws_out[j].chunk_index < ws_out[k].chunk_index
        /\ ws_pc = "idle" => ws_idx = Len(ws_text_chunks)
        /\ ws_pc = "speaking" => ws_idx < Len(ws_text_chunks)

\* the run has ended: chunk 0 failed and was answered with an error message,
\* chunk 1 was sent as audio with chunk_index 1
C30_Witness ==
    /\ ws_pc = "idle"
    /\ Len(ws_text_chunks) = 2
    /\ Cardinality(ChunkMessagesOf("error", 0)) = 1
    /\ \E k \in ChunkMessagesOf("audio_response_chunk", 1) :
          ws_out[k].text = ws_text_chunks[2]

----------------------------------------------------------------------------
\* Claims about the text messages of the WebSocket API (checked under SpecApi)

\* the step handles a text message that process_text_message turns away
MalformedStep == \E kind \in WsMalformedKinds : WsMalformed(kind)

\* C31: a WebSocket text message without "type", a text_input message
\* without "text" or a message of unknown type is answered with exactly one
\* error message and leaves the session history unchanged, with no LLM or TTS
\* call; a clear_session message empties the history and is answered with
\* status "session_cleared".
C31_MalformedAnsweredOnce ==
    [][/\ MalformedStep =>
             /\ Len(ws_out') = 1
             /\ ws_out'[1].type = "error"
             /\ ws_history' = ws_history
             /\ ws_run'.llm_calls = 0
             /\ ws_run'.tts_calls = 0
             /\ ws_pc' = "idle"
       /\ WsClearSession =>
             /\ ws_history' = <<>>
             /\ ws_out' = <<WsMsg("status", <<"session_cleared">>, -1, FALSE)>>
             /\ ws_run'.llm_calls = 0
             /\ ws_run'.tts_calls = 0]_vars

\* C31 witness: a client whose history holds a finished run sent a text_input
\* without text and got the one error
C31_Witness ==
    /\ ws_run.kind = "no_text"
    /\ Len(ws_history) = 2
    /\ ws_run.history_before = 2
    /\ Len(ws_out) = 1
    /\ ws_out[1].type = "error"

----------------------------------------------------------------------------
\* Claims about the runs of one session (checked under SpecRuns and SpecLive)

\* the step is a stream_voice_chat request for session s: it takes a task slot
\* (also when its transcription fails, after it reset the session)
RequestStep(s) ==
    \E q \in TaskIds :
        tasks[q].status = "none" /\ tasks'[q].status # "none" /\ tasks'[q].sid = s

\* the step ends the run of task p with its assistant message recorded
CompletionStep(p) == tasks[p].status = "active" /\ tasks'[p].status = "done"

\* the content of the last message of session s after the step
RecordedContent(s) ==
    active_sessions'[s].messages[Len(active_sessions'[s].messages)].content

\* C32 as stated: within one run the accumulated response text only grows by
\* appending: the response_so_far of each drain is a prefix of that of every
\* later drain of the same run and of the assistant message recorded when the
\* run completes; only the begin of a run resets the text, to empty.
C32_ResponseAppendOnly ==
    [][/\ \A p \in TaskIds :
             /\ IsPrefix(polled[p], polled'[p])
             /\ CompletionStep(p) => IsPrefix(polled[p], RecordedContent(tasks[p].sid))
       /\ \A s \in DOMAIN active_sessions :
             \/ IsPrefix(active_sessions[s].current_response,
                         active_sessions'[s].current_response)
             \/ RequestStep(s) /\ active_sessions'[s].current_response = <<>>]_vars

\* session s is processing: what get_audio_chunks reports as is_processing
Processing(s) == s \in DOMAIN active_sessions /\ active_sessions[s].is_processing

\* C34 as stated: every run started by stream_voice_chat eventually reaches a
\* state where the processing flag of its session is false, under fair
\* scheduling of the background tasks and for a finite text stream, also when
\* the transcription fails after the flag was set or the synthesis of a unit
\* raises.
C34_ProcessingEnds == Processing(RunsSession) ~> ~Processing(RunsSession)

\* C35 as stated: a producer whose run was cancelled by stop_session never
\* enqueues a chunk or appends response text again, also when a new
\* stream_voice_chat starts a later run on the same session before the
\* cancelled producer has finished: a step of a cancelled producer leaves the
\* queue and the response text of its session as they are.
C35_CancelledProducerSilent ==
    [][\A p \in TaskIds, ok \in BOOLEAN :
          run_hist[p].cancelled /\ ProducerStep(p, ok) =>
              /\ active_sessions'[tasks[p].sid].audio_chunks =
                     active_sessions[tasks[p].sid].audio_chunks
              /\ active_sessions'[tasks[p].sid].current_response =
                     active_sessions[tasks[p].sid].current_response]_vars

\* C36 as stated: after clear_session(s) the history of s stays empty until
\* the next request that adds a user message: a step that finds the history
\* of a session empty leaves it empty or puts a user message first, so a run
\* that was in flight at the clear appends no assistant message when it ends.
C36_ClearedHistoryStaysEmpty ==
    [][\A s \in DOMAIN active_sessions :
          active_sessions[s].messages = <<>> /\ active_sessions'[s].messages # <<>> =>
              active_sessions'[s].messages[1].role = "user"]_vars

----------------------------------------------------------------------------
\* Claims about the creation of sessions by the SessionManager (checked under
\* SpecSess)

\* the calls that create the session they are called for
CreatingOps ==
    {"get_session", "add_message", "get_messages", "clear_messages", "create_session"}

\* C33: SessionManager creates a session only on get_session, the operations
\* built on it (add_message, get_messages, clear_messages) or create_session;
\* update_session, delete_session and export_session on an unknown id return
\* False, False and None and leave the session map unchanged; get_session on
\* an unknown id adds a record with empty history, empty chunk queue, empty
\* response text and processing flag false.
C33_CreatedOnlyByReference ==
    [][/\ \A s \in DOMAIN sm_sessions' \ DOMAIN sm_sessions :
             sm_last'.sid = s /\ sm_last'.op \in CreatingOps
       /\ \A s \in SmSessionIds \ DOMAIN sm_sessions :
             /\ SmUpdateSession(s) => sm_sessions' = sm_sessions /\ sm_last'.ret = "False"
             /\ SmDeleteSession(s) => sm_sessions' = sm_sessions /\ sm_last'.ret = "False"
             /\ SmExportSession(s) => sm_sessions' = sm_sessions /\ sm_last'.ret = "None"
             /\ SmGetSession(s) =>
                    /\ s \in DOMAIN sm_sessions'
                    /\ sm_sessions'[s].messages = <<>>
                    /\ sm_sessions'[s].audio_chunks = <<>>
                    /\ sm_sessions'[s].current_response = <<>>
                    /\ ~sm_sessions'[s].is_processing]_vars

\* update_session was called for the unknown id "s10" while "s1" has a
\* session with a message: it returned False and no session was added
C33_Witness ==
    /\ sm_last.op = "update_session"
    /\ sm_last.sid = "s10"
    /\ sm_last.ret = "False"
    /\ DOMAIN sm_sessions = {"s1"}
    /\ Len(sm_sessions["s1"].messages) = 1

----------------------------------------------------------------------------
\* Claims about the expiry of sessions (checked under SpecSess)

\* the seconds since the last activity of session s
Inactivity(s) == clock - sm_sessions[s].last_activity

\* the step is a reference to session s that finds or makes its record
ReferenceStep(s) ==
    \/ SmGetSession(s)
    \/ SmAddMessage(s, "user")
    \/ SmUpdateSession(s) /\ s \in DOMAIN sm_sessions

\* C39: a session referenced through get_session, add_message or
\* update_session at intervals of at most expiry_seconds is never removed by
\* the expiry cleanup: every such reference sets last_activity to the current
\* time; a step other than delete_session or create_session on s keeps the
\* record of a session s whose inactivity is at most expiry_seconds (its
\* creation time and its messages, unless clear_messages empties them); what
\* cleanup_expired_sessions removes has an inactivity strictly greater than
\* expiry_seconds, and it returns the number of sessions it removed.
C39_ActiveSessionNotExpired ==
    [][/\ \A s \in SmSessionIds : ReferenceStep(s) => sm_sessions'[s].last_activity = clock
       /\ \A s \in DOMAIN sm_sessions :
             (Inactivity(s) <= expiry_seconds /\ ~SmDeleteSession(s) /\ ~SmCreateSession(s)) =>
                 /\ s \in DOMAIN sm_sessions'
                 /\ sm_sessions'[s].created_at = sm_sessions[s].created_at
                 /\ \/ IsPrefix(sm_sessions[s].messages, sm_sessions'[s].messages)
                    \/ SmClearMessages(s)
       /\ SmCleanupExpiredSessions =>
             /\ sm_last'.count = Cardinality(DOMAIN sm_sessions \ DOMAIN sm_sessions')
             /\ \A s \in DOMAIN sm_sessions \ DOMAIN sm_sessions' :
                   Inactivity(s) > expiry_seconds
             /\ \A s \in DOMAIN sm_sessions' : sm_sessions'[s] = sm_sessions[s]]_vars

\* cleanup_expired_sessions removed one session and returned 1, and left a
\* session whose inactivity is exactly expiry_seconds
C39_Witness ==
    /\ sm_last.op = "cleanup_expired_sessions"
    /\ sm_last.count = 1
    /\ \E s \in DOMAIN sm_sessions : Inactivity(s) = expiry_seconds

----------------------------------------------------------------------------
\* Claims about the registration of WebSocket connections (checked under
\* SpecConn)

\* C37 as stated, for the socket of a client_id that was accepted last: while
\* it is accepted and its handler has not seen a disconnect,
\* active_connections[client_id] refers to it, so the messages for the client
\* are delivered to it; when a second connection with the same client_id was
\* opened and the first one then disconnects, the second stays registered.
C37_OpenSocketRegistered ==
    \A c \in ClientIds :
        LatestSocket(c) # 0 /\ conn_sockets[LatestSocket(c)].state = "open" =>
            /\ c \in DOMAIN active_connections
            /\ active_connections[c] = LatestSocket(c)

----------------------------------------------------------------------------
\* Claims about the text that reaches the synthesis backend (checked under
\* SpecSolo)

\* C38: in the three segmentation paths, for a run that ended and was neither
\* cancelled nor hit by a synthesis failure, the units handed to synthesis,
\* concatenated in order, hold exactly the non-whitespace characters of the
\* full response text in the same order: segmentation drops or moves only
\* whitespace.
C38_SegmentationKeepsText ==
    /\ (ap_pc = "returned" /\ ap_is_processing) =>
          NonSpace(Concat(ap_handed)) = NonSpace(ap_current_response)
    /\ NonSpace(Concat(process_text(ap_current_response))) = NonSpace(ap_current_response)
    /\ \A p \in TaskIds : (tasks[p].status = "done" /\ ~run_hist[p].cancelled) =>
          NonSpace(Concat(TextsOf(hist[tasks[p].sid].synthesized))) =
              NonSpace(active_sessions[tasks[p].sid].current_response)
    /\ (ws_run.kind \in {"text", "audio"} /\ ~ws_run.aborted /\ ws_pc = "idle") =>
          NonSpace(Concat(SubSeq(ws_text_chunks, 1, ws_idx))) =
              NonSpace(ws_history[Len(ws_history)].content)

\* a producer ended a run of two units that was not cancelled, and the units
\* together are shorter than the response text: whitespace was dropped
C38_Witness ==
    \E p \in TaskIds :
        /\ tasks[p].status = "done"
        /\ ~run_hist[p].cancelled
        /\ Len(hist[tasks[p].sid].synthesized) = 2
        /\ Len(Concat(TextsOf(hist[tasks[p].sid].synthesized))) <
              Len(active_sessions[tasks[p].sid].current_response)

====
